---- MODULE Spec2Model ----
(***************************************************************************)
(* Model of the benchmark coordinators of llm-api-speed (main.go):         *)
(*   - diagnosticMode: a pool of workers issuing timed requests during a   *)
(*     90-second session, and the collector that reduces their outcomes    *)
(*     to one DiagnosticSummary;                                           *)
(*   - testProviderMetrics: a batch of concurrent repetitions sharing one  *)
(*     deadline, and the collector that averages them into one TestResult. *)
(* Time is counted in seconds on a grid of gracePeriod (5s): every         *)
(* duration of the program is a multiple of it.                            *)
(***************************************************************************)
EXTENDS Integers, Sequences, FiniteSets, TLC

\* ------------------------------------------------------------------------
\* Bounds of the model
\* ------------------------------------------------------------------------
\* number of diagnostic workers modelled (the program runs numWorkers = 10
\* identical, independent workers)
PoolSize == 1

\* the clocks stop at this many time units (seconds for a diagnostic session,
\* minutes for a batch); the program's own deadlines lie well before it
Horizon == 100

\* number of events a stream delivers at most before it ends
MaxEvents == 2

\* the clock of a single run stops at this reading; the context of the run
\* expires there
MaxClock == 3

\* number of records a report is generated from at most
MaxRecords == 3

\* number of providers main tests at most
MaxProviders == 2

\* number of groups of a configuration file at most
MaxGroups == 2

\* number of providers of a group of a configuration file at most
MaxGroupProviders == 2

\* ------------------------------------------------------------------------
\* Program constants (seconds)
\* ------------------------------------------------------------------------
sessionDuration == 90
requestTimeout == 30
gracePeriod == 5
tickerPeriod == 15

\* testProviderMetrics: repetitions per mode, and the batch timeout in minutes
iterationsPerMode == 3
batchTimeout == 5

ModeStreaming == "streaming"
ModeToolCalling == "tool-calling"
ModeMixed == "mixed"
TestModes == {ModeStreaming, ModeToolCalling, ModeMixed}

\* error texts returned by singleTestRun / singleToolCallRun
ErrTimeout == "timeout exceeded"
ErrStream == "stream error"
ErrCreate == "error creating stream"
NoError == "nil"

Workers == 1..PoolSize

\* the clock advances on the grid of the smallest program duration
TimeStep == gracePeriod

VARIABLES
    program,          \* the part of the program run: "diagnostic", "batch",
                      \* "collectors", "run", "markdown-report",
                      \* "diagnostic-report" or "main"
    mode,             \* the mode parameter of the coordinator
    diagPc,           \* position of diagnosticMode's own goroutine
    now,              \* seconds elapsed since sessionStartTime
    workerPc,         \* per worker: "unborn", "idle", "requesting", "waiting", "stopped"
    reqNum,           \* per worker: reqNum
    reqStart,         \* per worker: session time at which the current request started
    tickerC,          \* per worker: ticks buffered in ticker.C (capacity 1)
    slowRequest,      \* history, per worker: one of its requests ran for more
                      \* than tickerPeriod
    testMode,         \* per worker: the sub-mode of its current request
    resultsChan,      \* buffered channel of diagnosticResult (the fields the
                      \* collector reads: e2e, ttft, throughput, tokens, err)
    chanClosed,       \* close(resultsChan) has been executed
    successCount, failureCount,
    totalE2E, totalTTFT, totalThroughput, totalTokens,
    errors,           \* map error text -> count
    diagnosticResults,\* the shared results slice (*results) of diagnosticMode
    batchPc,          \* position of testProviderMetrics' own goroutine
    batchNow,         \* minutes elapsed since the batch context was created
    runNum,           \* the launch loop's runNum: number of the next run to launch
    runPc,            \* per run: "unlaunched", "running", "done"
    runsChan,         \* testProviderMetrics' resultsChan (the fields the
                      \* collector reads: e2e, ttft, throughput, tokens, err)
    runsClosed,       \* close(resultsChan) has been executed
    e2eSum, ttftSum, throughputSum, tokensSum,
    successfulRuns,
    firstError,
    results,          \* the shared results slice (*results) of testProviderMetrics
    orderPc,          \* two collectors compared: "none", "collect", "built"
    arrival,          \* per execution: the outcomes in the order they arrive
                      \* on the result channel
    arrivalPos,       \* number of outcomes both collectors have received
    batchAcc,         \* per execution: the accumulators of testProviderMetrics
    diagAcc,          \* per execution: the accumulators of diagnosticMode
    built,            \* per execution: the TestResult and DiagnosticSummary built
    streamPc,         \* position of singleTestRun / singleToolCallRun: "none",
                      \* "start", "recv", "returned"
    clock,            \* the reading of time.Now()
    startTime,
    firstTokenTime,   \* 0 is the zero time.Time (IsZero)
    endTime,
    fullResponseContent, \* the text built so far, a sequence of characters
    chunkCount,
    response,         \* the stream event returned by the last stream.Recv()
    runOutcome,       \* what the run returned
    reportPc,         \* position of the report generator: "none", "input",
                      \* "written", "failed"
    reportInput,      \* the results slice the report generator is given
    report,           \* the report built
    mainPc,           \* position of main: "none", "dispatch", "join", "report",
                      \* "exit"
    diagnostic,       \* the --diagnostic flag
    testAll,          \* the --all flag
    providersToTest,  \* number of providers selected
    nextProvider,     \* the provider main's loop starts next
    provPc,           \* per provider: "pending", "running", "lock", "read",
                      \* "write", "unlock", "done"
    wgCount,          \* counter of the WaitGroup main waits on
    resultsMutex,     \* holder of the results mutex, 0 when unlocked
    appendLocal,      \* per provider: the slice value append() has read
    mainResults,      \* the results slice of main shared by the providers
    produced,         \* history: the providers whose run produced a record
    reported,         \* the slice main handed to the report generator
    savePc,           \* position of the two batches compared: "none", "runs",
                      \* "built"
    saveResponses,    \* per batch: the --save-responses flag
    saveOutcomes,     \* what the runs of the two batches return, by run number
    saveNum,          \* number of runs that have returned
    saveAcc,          \* per batch: the accumulators of the collecting loop
    responseFiles,    \* per batch: the response files written, name -> text
    saveBuilt,        \* per batch: the TestResult built
    cfgPc,            \* position of LoadConfig: "none", "load", "validate",
                      \* "groups", "returned"
    cfgKeys,          \* the providers with an entry in [api_keys]
    cfgNum,           \* len(cfg.Groups)
    cfgGroups,        \* the groups of the file ValidateConfig has read so far
    cfgErr,           \* the error LoadConfig returns
    cfgLoaded,        \* LoadConfig has returned a config
    selPc,            \* position of main's selection of the providers:
                      \* "none", "flags", "selected", "fatal"
    allProviderConfigs, \* name -> APIKey and Model, from .env and the flags
    selFlags,         \* the flags --all and --provider
    selected          \* the names of the providers in providersToTest

diagVars == <<program, mode, diagPc, now, workerPc, reqNum, reqStart, testMode, tickerC,
              slowRequest, resultsChan, chanClosed, successCount, failureCount,
              totalE2E, totalTTFT, totalThroughput, totalTokens, errors,
              diagnosticResults>>

batchVars == <<batchPc, batchNow, runNum, runPc, runsChan, runsClosed, e2eSum,
               ttftSum, throughputSum, tokensSum, successfulRuns, firstError, results>>

orderVars == <<orderPc, arrival, arrivalPos, batchAcc, diagAcc, built>>

streamVars == <<streamPc, clock, startTime, firstTokenTime, endTime,
                fullResponseContent, chunkCount, response, runOutcome>>

reportVars == <<reportPc, reportInput, report>>

mainVars == <<mainPc, diagnostic, testAll, providersToTest, nextProvider, provPc,
              wgCount, resultsMutex, appendLocal, mainResults, produced, reported>>

saveVars == <<savePc, saveResponses, saveOutcomes, saveNum, saveAcc,
              responseFiles, saveBuilt>>

configVars == <<cfgPc, cfgKeys, cfgNum, cfgGroups, cfgErr, cfgLoaded>>

selectVars == <<selPc, allProviderConfigs, selFlags, selected>>

auxVars == <<saveVars, configVars, selectVars>>

vars == <<diagVars, batchVars, orderVars, streamVars, reportVars, mainVars,
          auxVars>>

\* ------------------------------------------------------------------------
\* Helpers
\* ------------------------------------------------------------------------
Min(a, b) == IF a < b THEN a ELSE b

\* float64 division, kept exact as a fraction
FloatDiv(a, b) == [num |-> a, den |-> b]
FloatZero == [num |-> 0, den |-> 1]

\* mutant of DiagTestMode: the parity test of mixed mode is inverted
DiagTestModeSwapped(m, n) ==
    CASE m = ModeMixed -> IF n % 2 = 0 THEN ModeStreaming ELSE ModeToolCalling
      [] m = ModeToolCalling -> ModeToolCalling
      [] m = ModeStreaming -> ModeStreaming
      [] OTHER -> ModeStreaming

\* the sub-mode a worker runs for request number n (switch mode, main.go)
DiagTestMode(m, n) ==
    CASE m = ModeMixed -> IF n % 2 = 1 THEN ModeStreaming ELSE ModeToolCalling
      [] m = ModeToolCalling -> ModeToolCalling
      [] m = ModeStreaming -> ModeStreaming
      [] OTHER -> ModeStreaming

\* deadline of a request context (variant: the context is the session's, it
\* has no timeout of its own)
ReqDeadlineSessionOnly(start) == sessionDuration

\* deadline of a request context derived from sessionCtx with requestTimeout
ReqDeadline(start) == Min(start + requestTimeout, sessionDuration)

\* the metrics a successful run of sub-mode m reports (e2e, ttft in time
\* units, ttft <= e2e; throughput as the run computes it: (tokens - 1) /
\* (e2e - ttft), and 0 when the generation interval is 0): a streamed story
\* for singleTestRun, a one-token tool call for singleToolCallRun
RunMetrics(m) ==
    IF m = ModeToolCalling
    THEN { [e2e |-> 2, ttft |-> 2, throughput |-> 0, tokens |-> 1] }
    ELSE { [e2e |-> 5, ttft |-> 1, throughput |-> 3, tokens |-> 13] }

\* the outcomes singleTestRun / singleToolCallRun (sub-mode m) can return for
\* a request started at `start` and returning at time t
RunOutcomes(m, start, t) ==
    IF t >= ReqDeadline(start)
    THEN { [e2e |-> 0, ttft |-> 0, throughput |-> 0, tokens |-> 0, err |-> ErrTimeout] }
    ELSE { [e2e |-> x.e2e, ttft |-> x.ttft, throughput |-> x.throughput,
            tokens |-> x.tokens, err |-> NoError] : x \in RunMetrics(m) }
         \cup
         { [e2e |-> 0, ttft |-> 0, throughput |-> 0, tokens |-> 0, err |-> e] :
             e \in {ErrStream} }

\* mutant of MapIncr: the count is set instead of incremented
MapSetOne(m, k) == [x \in DOMAIN m \cup {k} |-> IF x = k THEN 1 ELSE m[x]]

\* errors[k]++ on a Go map
MapIncr(m, k) ==
    IF k \in DOMAIN m THEN [m EXCEPT ![k] = @ + 1]
    ELSE [x \in DOMAIN m \cup {k} |-> IF x = k THEN 1 ELSE m[x]]

EmptyMap == [x \in {} |-> 0]

\* ------------------------------------------------------------------------
\* diagnosticMode
\* ------------------------------------------------------------------------
\* the state of diagnosticMode's variables when it is called
DiagStart ==
    /\ program = "diagnostic"
    /\ mode \in TestModes
    /\ diagPc = "entry"
    /\ now = 0
    /\ workerPc = [w \in Workers |-> "unborn"]
    /\ reqNum = [w \in Workers |-> 0]
    /\ reqStart = [w \in Workers |-> 0]
    /\ testMode = [w \in Workers |-> ""]
    /\ tickerC = [w \in Workers |-> 0]
    /\ slowRequest = [w \in Workers |-> FALSE]
    /\ resultsChan = <<>>
    /\ chanClosed = FALSE
    /\ successCount = 0
    /\ failureCount = 0
    /\ totalE2E = 0
    /\ totalTTFT = 0
    /\ totalThroughput = 0
    /\ totalTokens = 0
    /\ errors = EmptyMap
    /\ diagnosticResults = <<>>

\* entry of diagnosticMode: the log file is created; on failure the function
\* returns at once, otherwise the session starts and the workers are spawned
DiagEntry(logOk) ==
    /\ program = "diagnostic"
    /\ diagPc = "entry"
    /\ IF logOk
       THEN /\ diagPc' = "collect"
            /\ workerPc' = [w \in Workers |-> "idle"]
       ELSE /\ diagPc' = "returned"
            /\ UNCHANGED workerPc
    /\ UNCHANGED <<slowRequest, program, mode, now, reqNum, reqStart, testMode, tickerC, resultsChan,
                   chanClosed, successCount, failureCount, totalE2E, totalTTFT,
                   totalThroughput, totalTokens, errors, diagnosticResults>>
    /\ UNCHANGED <<batchVars, orderVars, streamVars, reportVars, mainVars, auxVars>>

\* a worker starts a request: reqNum++, request context, run begins
IssueRequest(w) ==
    /\ reqNum' = [reqNum EXCEPT ![w] = @ + 1]
    /\ reqStart' = [reqStart EXCEPT ![w] = now]
    /\ testMode' = [testMode EXCEPT ![w] = DiagTestMode(mode, reqNum'[w])]
    /\ workerPc' = [workerPc EXCEPT ![w] = "requesting"]

\* the worker goroutine begins: ticker created, first request immediately
WorkerStart(w) ==
    /\ workerPc[w] = "idle"
    /\ IssueRequest(w)
    /\ UNCHANGED <<slowRequest, program, mode, diagPc, now, tickerC, resultsChan, chanClosed,
                   successCount, failureCount, totalE2E, totalTTFT,
                   totalThroughput, totalTokens, errors, diagnosticResults>>
    /\ UNCHANGED <<batchVars, orderVars, streamVars, reportVars, mainVars, auxVars>>

\* mutant of AfterRequest: a failed request makes the worker give up
AfterRequestAbort(err) == IF err # NoError THEN "stopped" ELSE "waiting"

\* where the worker goes once a request has returned: it logs the outcome,
\* sends it and reaches the select whatever reqErr is
AfterRequest(err) == "waiting"

\* the run returns; the worker sends the outcome on resultsChan and goes on
\* to the select
RequestReturns(w) ==
    /\ workerPc[w] = "requesting"
    /\ Len(resultsChan) < 1000
    /\ \E o \in RunOutcomes(testMode[w], reqStart[w], now) :
          /\ resultsChan' = Append(resultsChan, o)
          /\ workerPc' = [workerPc EXCEPT ![w] = AfterRequest(o.err)]
    /\ slowRequest' = [slowRequest EXCEPT ![w] = @ \/ (now - reqStart[w] > tickerPeriod)]
    /\ UNCHANGED <<program, mode, diagPc, now, reqNum, reqStart, testMode, tickerC, chanClosed,
                   successCount, failureCount, totalE2E, totalTTFT,
                   totalThroughput, totalTokens, errors, diagnosticResults>>
    /\ UNCHANGED <<batchVars, orderVars, streamVars, reportVars, mainVars, auxVars>>

\* the cases of the worker's select that are ready
ReadyCases(w) ==
    {c \in {"done"} : now >= sessionDuration} \cup {c \in {"tick"} : tickerC[w] > 0}

\* mutant of EnoughTime: the comparison is inclusive
EnoughTimeInclusive(t) == ~ (sessionDuration - t <= requestTimeout + gracePeriod)

\* mutant of EnoughTime: the grace period is left out
EnoughTimeNoGrace(t) == ~ (sessionDuration - t < requestTimeout)

\* the tick branch's test (variant: there is no test)
EnoughTimeAlways(t) == TRUE

\* the tick branch's test: enough session time left for another request
EnoughTime(t) == ~ (sessionDuration - t < requestTimeout + gracePeriod)

\* the worker's select: session end, or a tick followed by the time check
WorkerSelect(w) ==
    /\ workerPc[w] = "waiting"
    /\ \E c \in ReadyCases(w) :
          IF c = "done"
          THEN /\ workerPc' = [workerPc EXCEPT ![w] = "stopped"]
               /\ UNCHANGED <<reqNum, reqStart, testMode, tickerC>>
          ELSE /\ tickerC' = [tickerC EXCEPT ![w] = 0]
               /\ IF EnoughTime(now)
                  THEN IssueRequest(w)
                  ELSE /\ workerPc' = [workerPc EXCEPT ![w] = "stopped"]
                       /\ UNCHANGED <<reqNum, reqStart, testMode>>
    /\ UNCHANGED <<slowRequest, program, mode, diagPc, now, resultsChan, chanClosed,
                   successCount, failureCount, totalE2E, totalTTFT,
                   totalThroughput, totalTokens, errors, diagnosticResults>>
    /\ UNCHANGED <<batchVars, orderVars, streamVars, reportVars, mainVars, auxVars>>

\* mutant of TickDue: the ticker is created with the request timeout
TickDueTimeout(t) == t % requestTimeout = 0

\* the ticker (variant: it ticks at every step of the clock)
TickDueEveryStep(t) == t % TimeStep = 0

\* time.NewTicker(15 * time.Second), created at session time 0: a tick is
\* due at every multiple of the period
TickDue(t) == t % tickerPeriod = 0

\* the session clock advances by one step, once every goroutine that can act
\* at the current instant has done so (a run returns at its context's
\* deadline at the latest, a ready select case is taken, the collector
\* receives what was sent); a ticker whose period elapses puts a tick in its
\* channel unless one is already buffered
Advance ==
    /\ program = "diagnostic"
    /\ diagPc = "collect"
    /\ now < Horizon
    /\ \E w \in Workers : workerPc[w] \in {"requesting", "waiting"}
    /\ Len(resultsChan) = 0
    /\ \A w \in Workers :
          /\ workerPc[w] # "idle"
          /\ workerPc[w] = "requesting" => now < ReqDeadline(reqStart[w])
          /\ workerPc[w] = "waiting" => ReadyCases(w) = {}
    /\ now' = now + TimeStep
    /\ tickerC' = [w \in Workers |->
                     IF workerPc[w] \in {"requesting", "waiting"} /\ TickDue(now')
                     THEN 1 ELSE tickerC[w]]
    /\ UNCHANGED <<slowRequest, program, mode, diagPc, workerPc, reqNum, reqStart, testMode, resultsChan,
                   chanClosed, successCount, failureCount, totalE2E, totalTTFT,
                   totalThroughput, totalTokens, errors, diagnosticResults>>
    /\ UNCHANGED <<batchVars, orderVars, streamVars, reportVars, mainVars, auxVars>>

\* mutant of CloseResults: the channel is closed without waiting for the
\* workers
CloseResultsEarly ==
    /\ program = "diagnostic"
    /\ diagPc = "collect"
    /\ ~ chanClosed
    /\ chanClosed' = TRUE
    /\ UNCHANGED <<slowRequest, program, mode, diagPc, now, workerPc, reqNum, reqStart,
                   testMode, tickerC, resultsChan, successCount, failureCount,
                   totalE2E, totalTTFT, totalThroughput, totalTokens, errors,
                   diagnosticResults>>
    /\ UNCHANGED <<batchVars, orderVars, streamVars, reportVars, mainVars, auxVars>>

\* go func() { workerWg.Wait(); close(resultsChan) }()
CloseResults ==
    /\ program = "diagnostic"
    /\ diagPc = "collect"
    /\ ~ chanClosed
    /\ \A w \in Workers : workerPc[w] = "stopped"
    /\ chanClosed' = TRUE
    /\ UNCHANGED <<slowRequest, program, mode, diagPc, now, workerPc, reqNum, reqStart, testMode, tickerC,
                   resultsChan, successCount, failureCount, totalE2E, totalTTFT,
                   totalThroughput, totalTokens, errors, diagnosticResults>>
    /\ UNCHANGED <<batchVars, orderVars, streamVars, reportVars, mainVars, auxVars>>

\* one iteration of `for result := range resultsChan`
Collect ==
    /\ program = "diagnostic"
    /\ diagPc = "collect"
    /\ Len(resultsChan) > 0
    /\ LET result == Head(resultsChan) IN
          IF result.err # NoError
          THEN /\ failureCount' = failureCount + 1
               /\ errors' = MapIncr(errors, result.err)
               /\ UNCHANGED <<successCount, totalE2E, totalTTFT, totalThroughput, totalTokens>>
          ELSE /\ successCount' = successCount + 1
               /\ totalE2E' = totalE2E + result.e2e
               /\ totalTTFT' = totalTTFT + result.ttft
               /\ totalThroughput' = totalThroughput + result.throughput
               /\ totalTokens' = totalTokens + result.tokens
               /\ UNCHANGED <<failureCount, errors>>
    /\ resultsChan' = Tail(resultsChan)
    /\ UNCHANGED <<slowRequest, program, mode, diagPc, now, workerPc, reqNum, reqStart, testMode, tickerC,
                   chanClosed, diagnosticResults>>
    /\ UNCHANGED <<batchVars, orderVars, streamVars, reportVars, mainVars, auxVars>>

\* mutant of MakeSummary: the sums are divided by the number of requests
MakeSummaryByTotal ==
    [Mode |-> mode,
     TotalRequests |-> successCount + failureCount,
     Successful |-> successCount,
     Failed |-> failureCount,
     AvgE2ELatency |-> IF successCount > 0
                       THEN totalE2E \div (successCount + failureCount) ELSE 0,
     AvgTTFT |-> IF successCount > 0
                 THEN totalTTFT \div (successCount + failureCount) ELSE 0,
     AvgThroughput |-> IF successCount > 0
                       THEN FloatDiv(totalThroughput, successCount + failureCount)
                       ELSE FloatZero,
     AvgTokens |-> IF successCount > 0
                   THEN totalTokens \div (successCount + failureCount) ELSE 0,
     Errors |-> IF Cardinality(DOMAIN errors) > 0 THEN errors ELSE EmptyMap]

\* the DiagnosticSummary built after the collector loop
MakeSummary ==
    [Mode |-> mode,
     TotalRequests |-> successCount + failureCount,
     Successful |-> successCount,
     Failed |-> failureCount,
     AvgE2ELatency |-> IF successCount > 0 THEN totalE2E \div successCount ELSE 0,
     AvgTTFT |-> IF successCount > 0 THEN totalTTFT \div successCount ELSE 0,
     AvgThroughput |-> IF successCount > 0 THEN FloatDiv(totalThroughput, successCount)
                       ELSE FloatZero,
     AvgTokens |-> IF successCount > 0 THEN totalTokens \div successCount ELSE 0,
     Errors |-> IF Cardinality(DOMAIN errors) > 0 THEN errors ELSE EmptyMap]

\* the end of the range loop (variant: the loop ends as soon as the channel
\* is empty)
SummarizeWhenEmpty ==
    /\ program = "diagnostic"
    /\ diagPc = "collect"
    /\ Len(resultsChan) = 0
    /\ diagnosticResults' = Append(diagnosticResults, MakeSummary)
    /\ diagPc' = "returned"
    /\ UNCHANGED <<slowRequest, program, mode, now, workerPc, reqNum, reqStart, testMode, tickerC,
                   resultsChan, chanClosed, successCount, failureCount, totalE2E,
                   totalTTFT, totalThroughput, totalTokens, errors>>
    /\ UNCHANGED <<batchVars, orderVars, streamVars, reportVars, mainVars, auxVars>>

\* the range loop ends on the closed, drained channel; the summary is built
\* and appended to the results slice
Summarize ==
    /\ program = "diagnostic"
    /\ diagPc = "collect"
    /\ chanClosed
    /\ Len(resultsChan) = 0
    /\ diagnosticResults' = Append(diagnosticResults, MakeSummary)
    /\ diagPc' = "returned"
    /\ UNCHANGED <<slowRequest, program, mode, now, workerPc, reqNum, reqStart, testMode, tickerC,
                   resultsChan, chanClosed, successCount, failureCount, totalE2E,
                   totalTTFT, totalThroughput, totalTokens, errors>>
    /\ UNCHANGED <<batchVars, orderVars, streamVars, reportVars, mainVars, auxVars>>

\* ------------------------------------------------------------------------
\* testProviderMetrics
\* ------------------------------------------------------------------------
\* mutant of ModesToRun: mixed mode is not expanded
ModesToRunSingle(m) == <<IF m = ModeMixed THEN ModeStreaming ELSE m>>

\* modesToRun
ModesToRun(m) == IF m = ModeMixed THEN <<ModeStreaming, ModeToolCalling>> ELSE <<m>>

\* totalRuns := len(modesToRun) * iterationsPerMode
TotalRuns(m) == Len(ModesToRun(m)) * iterationsPerMode

\* the mode of run number n in launch order (outer loop over modesToRun)
RunMode(m, n) == ModesToRun(m)[((n - 1) \div iterationsPerMode) + 1]

\* mutant of RunsChanCap: the channel is sized for one mode only
RunsChanCapPerMode(m) == iterationsPerMode

\* capacity of the result channel: make(chan runResult, totalRuns)
RunsChanCap(m) == TotalRuns(m)

\* deadline of the context shared by the runs of a batch (variant: the
\* context has no deadline)
BatchDeadlineNever == Horizon + 1

\* deadline of the context shared by the runs of a batch
BatchDeadline == batchTimeout

Runs == 1..(2 * iterationsPerMode)

\* the outcomes a run of sub-mode m of the batch can return at batch time t
BatchOutcomes(m, t) ==
    IF t >= BatchDeadline
    THEN { [e2e |-> 0, ttft |-> 0, throughput |-> 0, tokens |-> 0, err |-> ErrTimeout] }
    ELSE { [e2e |-> x.e2e, ttft |-> x.ttft, throughput |-> x.throughput,
            tokens |-> x.tokens, err |-> NoError] : x \in RunMetrics(m) }
         \cup
         { [e2e |-> 0, ttft |-> 0, throughput |-> 0, tokens |-> 0, err |-> e] :
             e \in {ErrStream, ErrCreate} }

BatchIdle ==
    /\ batchPc = "none"
    /\ batchNow = 0
    /\ runNum = 1
    /\ runPc = [r \in Runs |-> "unlaunched"]
    /\ runsChan = <<>>
    /\ runsClosed = FALSE
    /\ e2eSum = 0
    /\ ttftSum = 0
    /\ throughputSum = 0
    /\ tokensSum = 0
    /\ successfulRuns = 0
    /\ firstError = NoError
    /\ results = <<>>

DiagIdle ==
    /\ diagPc = "none"
    /\ now = 0
    /\ workerPc = [w \in Workers |-> "unborn"]
    /\ reqNum = [w \in Workers |-> 0]
    /\ reqStart = [w \in Workers |-> 0]
    /\ testMode = [w \in Workers |-> ""]
    /\ tickerC = [w \in Workers |-> 0]
    /\ slowRequest = [w \in Workers |-> FALSE]
    /\ resultsChan = <<>>
    /\ chanClosed = FALSE
    /\ successCount = 0
    /\ failureCount = 0
    /\ totalE2E = 0
    /\ totalTTFT = 0
    /\ totalThroughput = 0
    /\ totalTokens = 0
    /\ errors = EmptyMap
    /\ diagnosticResults = <<>>

\* entry of testProviderMetrics: the log file is created; on failure the
\* function returns at once, otherwise the batch context is created
BatchEntry(logOk) ==
    /\ program = "batch"
    /\ batchPc = "entry"
    /\ batchPc' = IF logOk THEN "launch" ELSE "returned"
    /\ UNCHANGED <<batchNow, runNum, runPc, runsChan, runsClosed, e2eSum, ttftSum,
                   throughputSum, tokensSum, successfulRuns, firstError, results>>
    /\ UNCHANGED <<diagVars, orderVars, streamVars, reportVars, mainVars, auxVars>>

\* one iteration of the launch loops: runWg.Add(1); go func(runNum, testMode)
LaunchRun ==
    /\ program = "batch"
    /\ batchPc = "launch"
    /\ runNum <= TotalRuns(mode)
    /\ runPc' = [runPc EXCEPT ![runNum] = "running"]
    /\ runNum' = runNum + 1
    /\ UNCHANGED <<batchPc, batchNow, runsChan, runsClosed, e2eSum, ttftSum,
                   throughputSum, tokensSum, successfulRuns, firstError, results>>
    /\ UNCHANGED <<diagVars, orderVars, streamVars, reportVars, mainVars, auxVars>>

\* the launch loops are over: the closer goroutine is started and the
\* function goes on to the collecting loop
LaunchDone ==
    /\ program = "batch"
    /\ batchPc = "launch"
    /\ runNum > TotalRuns(mode)
    /\ batchPc' = "collect"
    /\ UNCHANGED <<batchNow, runNum, runPc, runsChan, runsClosed, e2eSum, ttftSum,
                   throughputSum, tokensSum, successfulRuns, firstError, results>>
    /\ UNCHANGED <<diagVars, orderVars, streamVars, reportVars, mainVars, auxVars>>

\* a run returns and its goroutine sends the runResult (blocking while the
\* channel is full), then runWg.Done()
RunReturns(r) ==
    /\ runPc[r] = "running"
    /\ Len(runsChan) < RunsChanCap(mode)
    /\ \E o \in BatchOutcomes(RunMode(mode, r), batchNow) :
          runsChan' = Append(runsChan, o)
    /\ runPc' = [runPc EXCEPT ![r] = "done"]
    /\ UNCHANGED <<batchPc, batchNow, runNum, runsClosed, e2eSum, ttftSum,
                   throughputSum, tokensSum, successfulRuns, firstError, results>>
    /\ UNCHANGED <<diagVars, orderVars, streamVars, reportVars, mainVars, auxVars>>

\* the batch clock advances by a minute, once every goroutine that can act at
\* the current instant has done so
BatchAdvance ==
    /\ program = "batch"
    /\ batchPc = "collect"
    /\ batchNow < Horizon
    /\ \E r \in Runs : runPc[r] = "running"
    /\ \A r \in Runs : runPc[r] = "running" => batchNow < BatchDeadline
    /\ Len(runsChan) = 0
    /\ batchNow' = batchNow + 1
    /\ UNCHANGED <<batchPc, runNum, runPc, runsChan, runsClosed, e2eSum, ttftSum,
                   throughputSum, tokensSum, successfulRuns, firstError, results>>
    /\ UNCHANGED <<diagVars, orderVars, streamVars, reportVars, mainVars, auxVars>>

\* mutant of CloseRuns: the channel is closed without waiting for the runs
CloseRunsEarly ==
    /\ program = "batch"
    /\ batchPc = "collect"
    /\ ~ runsClosed
    /\ runsClosed' = TRUE
    /\ UNCHANGED <<batchPc, batchNow, runNum, runPc, runsChan, e2eSum, ttftSum,
                   throughputSum, tokensSum, successfulRuns, firstError, results>>
    /\ UNCHANGED <<diagVars, orderVars, streamVars, reportVars, mainVars, auxVars>>

\* go func() { runWg.Wait(); close(resultsChan) }()
CloseRuns ==
    /\ program = "batch"
    /\ batchPc = "collect"
    /\ ~ runsClosed
    /\ \A r \in Runs : runPc[r] # "running"
    /\ runsClosed' = TRUE
    /\ UNCHANGED <<batchPc, batchNow, runNum, runPc, runsChan, e2eSum, ttftSum,
                   throughputSum, tokensSum, successfulRuns, firstError, results>>
    /\ UNCHANGED <<diagVars, orderVars, streamVars, reportVars, mainVars, auxVars>>

\* mutant of CollectRun: every failure replaces the error kept so far
CollectRunLastError ==
    /\ program = "batch"
    /\ batchPc = "collect"
    /\ Len(runsChan) > 0
    /\ LET result == Head(runsChan) IN
          IF result.err = NoError
          THEN /\ e2eSum' = e2eSum + result.e2e
               /\ ttftSum' = ttftSum + result.ttft
               /\ throughputSum' = throughputSum + result.throughput
               /\ tokensSum' = tokensSum + result.tokens
               /\ successfulRuns' = successfulRuns + 1
               /\ UNCHANGED firstError
          ELSE /\ firstError' = result.err
               /\ UNCHANGED <<e2eSum, ttftSum, throughputSum, tokensSum, successfulRuns>>
    /\ runsChan' = Tail(runsChan)
    /\ UNCHANGED <<batchPc, batchNow, runNum, runPc, runsClosed, results>>
    /\ UNCHANGED <<diagVars, orderVars, streamVars, reportVars, mainVars, auxVars>>

\* one iteration of `for result := range resultsChan`
CollectRun ==
    /\ program = "batch"
    /\ batchPc = "collect"
    /\ Len(runsChan) > 0
    /\ LET result == Head(runsChan) IN
          IF result.err = NoError
          THEN /\ e2eSum' = e2eSum + result.e2e
               /\ ttftSum' = ttftSum + result.ttft
               /\ throughputSum' = throughputSum + result.throughput
               /\ tokensSum' = tokensSum + result.tokens
               /\ successfulRuns' = successfulRuns + 1
               /\ UNCHANGED firstError
          ELSE /\ firstError' = IF firstError = NoError THEN result.err ELSE firstError
               /\ UNCHANGED <<e2eSum, ttftSum, throughputSum, tokensSum, successfulRuns>>
    /\ runsChan' = Tail(runsChan)
    /\ UNCHANGED <<batchPc, batchNow, runNum, runPc, runsClosed, results>>
    /\ UNCHANGED <<diagVars, orderVars, streamVars, reportVars, mainVars, auxVars>>

\* mutant of MakeTestResult: the sums are divided by the number of runs
\* attempted
MakeTestResultByTotal ==
    IF successfulRuns = 0
    THEN [Mode |-> mode, E2ELatency |-> 0, TTFT |-> 0, Throughput |-> FloatZero,
          CompletionTokens |-> 0, Success |-> FALSE, Error |-> firstError]
    ELSE [Mode |-> mode,
          E2ELatency |-> e2eSum \div TotalRuns(mode),
          TTFT |-> ttftSum \div TotalRuns(mode),
          Throughput |-> FloatDiv(throughputSum, TotalRuns(mode)),
          CompletionTokens |-> tokensSum \div TotalRuns(mode),
          Success |-> TRUE, Error |-> ""]

\* the TestResult built after the collecting loop (variant: the end-to-end
\* latency is averaged over the runs attempted)
MakeTestResultE2EByTotal ==
    IF successfulRuns = 0
    THEN [Mode |-> mode, E2ELatency |-> 0, TTFT |-> 0, Throughput |-> FloatZero,
          CompletionTokens |-> 0, Success |-> FALSE, Error |-> firstError]
    ELSE [Mode |-> mode,
          E2ELatency |-> e2eSum \div TotalRuns(mode),
          TTFT |-> ttftSum \div successfulRuns,
          Throughput |-> FloatDiv(throughputSum, successfulRuns),
          CompletionTokens |-> tokensSum \div successfulRuns,
          Success |-> TRUE, Error |-> ""]

\* the TestResult built after the collecting loop
MakeTestResult ==
    IF successfulRuns = 0
    THEN [Mode |-> mode, E2ELatency |-> 0, TTFT |-> 0, Throughput |-> FloatZero,
          CompletionTokens |-> 0, Success |-> FALSE, Error |-> firstError]
    ELSE [Mode |-> mode,
          E2ELatency |-> e2eSum \div successfulRuns,
          TTFT |-> ttftSum \div successfulRuns,
          Throughput |-> FloatDiv(throughputSum, successfulRuns),
          CompletionTokens |-> tokensSum \div successfulRuns,
          Success |-> TRUE, Error |-> ""]

\* mutant of Finish: a batch without a success returns without a record
FinishDropsFailure ==
    /\ program = "batch"
    /\ batchPc = "collect"
    /\ runsClosed
    /\ Len(runsChan) = 0
    /\ IF successfulRuns = 0
       THEN /\ batchPc' = "returned"
            /\ UNCHANGED results
       ELSE /\ batchPc' = "returned"
            /\ results' = Append(results, MakeTestResult)
    /\ UNCHANGED <<batchNow, runNum, runPc, runsChan, runsClosed, e2eSum, ttftSum,
                   throughputSum, tokensSum, successfulRuns, firstError>>
    /\ UNCHANGED <<diagVars, orderVars, streamVars, reportVars, mainVars, auxVars>>

\* the range loop ends on the closed, drained channel; the result is built,
\* saved and appended (firstError.Error() panics on a nil error)
Finish ==
    /\ program = "batch"
    /\ batchPc = "collect"
    /\ runsClosed
    /\ Len(runsChan) = 0
    /\ IF successfulRuns = 0 /\ firstError = NoError
       THEN /\ batchPc' = "panic"
            /\ UNCHANGED results
       ELSE /\ batchPc' = "returned"
            /\ results' = Append(results, MakeTestResult)
    /\ UNCHANGED <<batchNow, runNum, runPc, runsChan, runsClosed, e2eSum, ttftSum,
                   throughputSum, tokensSum, successfulRuns, firstError>>
    /\ UNCHANGED <<diagVars, orderVars, streamVars, reportVars, mainVars, auxVars>>

\* the state of testProviderMetrics' variables when it is called
BatchStart ==
    /\ program = "batch"
    /\ mode \in TestModes
    /\ batchNow = 0
    /\ runNum = 1
    /\ runPc = [r \in Runs |-> "unlaunched"]
    /\ runsChan = <<>>
    /\ runsClosed = FALSE
    /\ e2eSum = 0
    /\ ttftSum = 0
    /\ throughputSum = 0
    /\ tokensSum = 0
    /\ successfulRuns = 0
    /\ firstError = NoError
    /\ results = <<>>
    /\ batchPc = "entry"

\* ------------------------------------------------------------------------
\* The two collecting loops as functions of the outcomes received, and two
\* executions that receive the same outcomes in different orders
\* ------------------------------------------------------------------------
Execs == {1, 2}

\* the accumulators of testProviderMetrics before its collecting loop
BatchAccInit ==
    [e2eSum |-> 0, ttftSum |-> 0, throughputSum |-> 0, tokensSum |-> 0,
     successfulRuns |-> 0, firstError |-> NoError]

\* mutant of ReceiveRun: a success overwrites the sums instead of adding to
\* them
ReceiveRunOverwrite(a, result) ==
    IF result.err = NoError
    THEN [a EXCEPT !.e2eSum = result.e2e,
                   !.ttftSum = result.ttft,
                   !.throughputSum = result.throughput,
                   !.tokensSum = result.tokens,
                   !.successfulRuns = @ + 1]
    ELSE [a EXCEPT !.firstError = IF @ = NoError THEN result.err ELSE @]

\* the body of testProviderMetrics' `for result := range resultsChan`
ReceiveRun(a, result) ==
    IF result.err = NoError
    THEN [a EXCEPT !.e2eSum = @ + result.e2e,
                   !.ttftSum = @ + result.ttft,
                   !.throughputSum = @ + result.throughput,
                   !.tokensSum = @ + result.tokens,
                   !.successfulRuns = @ + 1]
    ELSE [a EXCEPT !.firstError = IF @ = NoError THEN result.err ELSE @]

\* the TestResult testProviderMetrics builds from its accumulators
TestResultOf(m, a) ==
    IF a.successfulRuns = 0
    THEN [Mode |-> m, E2ELatency |-> 0, TTFT |-> 0, Throughput |-> FloatZero,
          CompletionTokens |-> 0, Success |-> FALSE, Error |-> a.firstError]
    ELSE [Mode |-> m,
          E2ELatency |-> a.e2eSum \div a.successfulRuns,
          TTFT |-> a.ttftSum \div a.successfulRuns,
          Throughput |-> FloatDiv(a.throughputSum, a.successfulRuns),
          CompletionTokens |-> a.tokensSum \div a.successfulRuns,
          Success |-> TRUE, Error |-> ""]

\* the accumulators of diagnosticMode before its collecting loop
DiagAccInit ==
    [successCount |-> 0, failureCount |-> 0, totalE2E |-> 0, totalTTFT |-> 0,
     totalThroughput |-> 0, totalTokens |-> 0, errors |-> EmptyMap]

\* the body of diagnosticMode's `for result := range resultsChan`
ReceiveDiag(a, result) ==
    IF result.err # NoError
    THEN [a EXCEPT !.failureCount = @ + 1,
                   !.errors = MapIncr(@, result.err)]
    ELSE [a EXCEPT !.successCount = @ + 1,
                   !.totalE2E = @ + result.e2e,
                   !.totalTTFT = @ + result.ttft,
                   !.totalThroughput = @ + result.throughput,
                   !.totalTokens = @ + result.tokens]

\* the DiagnosticSummary diagnosticMode builds from its accumulators
SummaryOf(m, a) ==
    [Mode |-> m,
     TotalRequests |-> a.successCount + a.failureCount,
     Successful |-> a.successCount,
     Failed |-> a.failureCount,
     AvgE2ELatency |-> IF a.successCount > 0 THEN a.totalE2E \div a.successCount ELSE 0,
     AvgTTFT |-> IF a.successCount > 0 THEN a.totalTTFT \div a.successCount ELSE 0,
     AvgThroughput |-> IF a.successCount > 0
                       THEN FloatDiv(a.totalThroughput, a.successCount)
                       ELSE FloatZero,
     AvgTokens |-> IF a.successCount > 0 THEN a.totalTokens \div a.successCount ELSE 0,
     Errors |-> IF Cardinality(DOMAIN a.errors) > 0 THEN a.errors ELSE EmptyMap]

\* the outcomes the runs of a batch of mode m can send before the shared
\* deadline
ArrivalOutcomes(m) ==
    UNION { BatchOutcomes(ModesToRun(m)[i], 0) : i \in 1..Len(ModesToRun(m)) }

\* how many of the outcomes of seq are successes of sub-mode sm
SuccessesOf(seq, sm) ==
    Cardinality({i \in 1..Len(seq) :
                    seq[i].err = NoError /\ seq[i] \in BatchOutcomes(sm, 0)})

\* the orders in which the totalRuns outcomes of a batch of mode m can arrive:
\* no sub-mode succeeds more often than it was run
Arrivals(m) ==
    {seq \in [1..TotalRuns(m) -> ArrivalOutcomes(m)] :
        \A i \in 1..Len(ModesToRun(m)) :
            SuccessesOf(seq, ModesToRun(m)[i]) <= iterationsPerMode}

\* seq with the outcomes at positions k and k+1 exchanged
SwapAt(seq, k) ==
    [i \in 1..Len(seq) |-> IF i = k THEN seq[k + 1]
                           ELSE IF i = k + 1 THEN seq[k] ELSE seq[i]]

OrderIdle ==
    /\ orderPc = "none"
    /\ arrival = [x \in Execs |-> <<>>]
    /\ arrivalPos = 0
    /\ batchAcc = [x \in Execs |-> BatchAccInit]
    /\ diagAcc = [x \in Execs |-> DiagAccInit]
    /\ built = [x \in Execs |-> <<>>]

\* two executions whose runs return the same outcomes, two of them arriving
\* in the opposite order in the second execution (every reordering is a chain
\* of such exchanges)
OrderStart ==
    /\ program = "collectors"
    /\ mode \in TestModes
    /\ orderPc = "collect"
    /\ \E seq \in Arrivals(mode) : \E k \in 1..(Len(seq) - 1) :
          arrival = [x \in Execs |-> IF x = 1 THEN seq ELSE SwapAt(seq, k)]
    /\ arrivalPos = 0
    /\ batchAcc = [x \in Execs |-> BatchAccInit]
    /\ diagAcc = [x \in Execs |-> DiagAccInit]
    /\ built = [x \in Execs |-> <<>>]

\* both executions receive their next outcome
ReceiveBoth ==
    /\ orderPc = "collect"
    /\ arrivalPos < Len(arrival[1])
    /\ arrivalPos' = arrivalPos + 1
    /\ batchAcc' = [x \in Execs |-> ReceiveRun(batchAcc[x], arrival[x][arrivalPos'])]
    /\ diagAcc' = [x \in Execs |-> ReceiveDiag(diagAcc[x], arrival[x][arrivalPos'])]
    /\ UNCHANGED <<program, mode, orderPc, arrival, built>>
    /\ UNCHANGED <<diagPc, now, workerPc, reqNum, reqStart, testMode, tickerC,
                   slowRequest, resultsChan, chanClosed, successCount, failureCount,
                   totalE2E, totalTTFT, totalThroughput, totalTokens, errors,
                   diagnosticResults>>
    /\ UNCHANGED <<batchVars, streamVars, reportVars, mainVars, auxVars>>

\* both channels are closed and drained: the results are built
BuildBoth ==
    /\ orderPc = "collect"
    /\ arrivalPos = Len(arrival[1])
    /\ built' = [x \in Execs |-> [test |-> TestResultOf(mode, batchAcc[x]),
                                  summary |-> SummaryOf(mode, diagAcc[x])]]
    /\ orderPc' = "built"
    /\ UNCHANGED <<program, mode, arrival, arrivalPos, batchAcc, diagAcc>>
    /\ UNCHANGED <<diagPc, now, workerPc, reqNum, reqStart, testMode, tickerC,
                   slowRequest, resultsChan, chanClosed, successCount, failureCount,
                   totalE2E, totalTTFT, totalThroughput, totalTokens, errors,
                   diagnosticResults>>
    /\ UNCHANGED <<batchVars, streamVars, reportVars, mainVars, auxVars>>

\* ------------------------------------------------------------------------
\* singleTestRun / singleToolCallRun: one streamed request
\* ------------------------------------------------------------------------
\* error texts of a stream that ended normally
ErrNoContent == "no content received from API"
ErrZeroTokens == "received 0 tokens"

\* a string is a sequence of characters; "" is the empty sequence
EmptyString == <<>>

\* the tool-call fragments a delta can carry: none, or one fragment that is
\* empty, names the function, or continues the arguments
ToolCallFragments ==
    { <<>>,
      <<[name |-> EmptyString, arguments |-> EmptyString]>>,
      <<[name |-> <<"n">>, arguments |-> EmptyString]>>,
      <<[name |-> EmptyString, arguments |-> <<"a">>]>> }

\* a stream event with an empty Choices array
NoChoices ==
    [choices |-> 0, content |-> EmptyString, reasoning |-> EmptyString,
     toolCalls |-> <<>>]

\* the stream events stream.Recv() can return: the request asks for one
\* choice, so an event has no choice or one, whose Delta carries content,
\* reasoning content and tool-call fragments, each possibly empty
StreamEvents ==
    { NoChoices } \cup
    [choices : {1}, content : {EmptyString, <<"c">>},
     reasoning : {EmptyString, <<"r">>}, toolCalls : ToolCallFragments]

\* time.Time.IsZero
IsZero(t) == t = 0

\* mutant of HasSignal: tool-call fragments never count as a first token
HasSignalTextOnly(m, delta) ==
    \/ delta.content # EmptyString
    \/ delta.reasoning # EmptyString

\* mutant of HasSignal: a tool call counts as a first token only when one of
\* its fragments carries a name or arguments
HasSignalNamedToolCall(m, delta) ==
    \/ delta.content # EmptyString
    \/ delta.reasoning # EmptyString
    \/ /\ m = ModeToolCalling
       /\ \E i \in 1..Len(delta.toolCalls) :
              \/ delta.toolCalls[i].name # EmptyString
              \/ delta.toolCalls[i].arguments # EmptyString

\* the condition under which a delta can set firstTokenTime: content or
\* reasoning content in both functions, hasToolCall in singleToolCallRun only
HasSignal(m, delta) ==
    \/ delta.content # EmptyString
    \/ delta.reasoning # EmptyString
    \/ (m = ModeToolCalling /\ Len(delta.toolCalls) > 0)

\* mutant of FirstTokenAfter: every signalling delta resets the timestamp
FirstTokenAfterLatest(m, first, delta, t) ==
    IF HasSignal(m, delta) THEN t ELSE first

\* firstTokenTime after a delta processed at time t
FirstTokenAfter(m, first, delta, t) ==
    IF HasSignal(m, delta) /\ IsZero(first) THEN t ELSE first

RECURSIVE ToolCallText(_)
\* the text the loop over delta.ToolCalls writes: the non-empty names and
\* arguments, in order
ToolCallText(toolCalls) ==
    IF toolCalls = <<>> THEN EmptyString
    ELSE Head(toolCalls).name \o Head(toolCalls).arguments \o ToolCallText(Tail(toolCalls))

\* mutant of Appended: the tool-call text is written in both functions
AppendedToolCallsAlways(m, delta) ==
    delta.content \o delta.reasoning \o ToolCallText(delta.toolCalls)

\* what one delta appends to fullResponseContent
Appended(m, delta) ==
    delta.content \o delta.reasoning \o
    (IF m = ModeToolCalling THEN ToolCallText(delta.toolCalls) ELSE EmptyString)

\* len(tke.Encode(text, nil, nil)): the encoder merges neighbouring
\* characters into tokens (here two to a token); the empty text has no token
TokenCount(text) == (Len(text) + 1) \div 2

\* mutant of Failed: the time measured so far is returned with the error
FailedPartial(e) ==
    [e2e |-> 1, ttft |-> 0, throughput |-> FloatZero, tokens |-> 0,
     response |-> EmptyString, err |-> e]

\* the outcome returned with an error
Failed(e) ==
    [e2e |-> 0, ttft |-> 0, throughput |-> FloatZero, tokens |-> 0,
     response |-> EmptyString, err |-> e]

\* mutant of Throughput: the first token is counted too
ThroughputAllTokens(completionTokens, generationTime) ==
    IF generationTime <= 0 THEN FloatZero
    ELSE FloatDiv(completionTokens, generationTime)

\* throughputVal
Throughput(completionTokens, generationTime) ==
    IF generationTime <= 0 THEN FloatZero
    ELSE FloatDiv(completionTokens - 1, generationTime)

\* mutant of RunResult: the token count is tested before the first-token
\* timestamp
RunResultTokensFirst(start, first, end, text) ==
    IF TokenCount(text) = 0 THEN Failed(ErrZeroTokens)
    ELSE IF IsZero(first) THEN Failed(ErrNoContent)
    ELSE [e2e |-> end - start, ttft |-> first - start,
          throughput |-> Throughput(TokenCount(text), (end - start) - (first - start)),
          tokens |-> TokenCount(text), response |-> text, err |-> NoError]

\* mutant of RunResult: the end-to-end latency is measured from the first
\* token
RunResultFromFirst(start, first, end, text) ==
    IF IsZero(first) THEN Failed(ErrNoContent)
    ELSE IF TokenCount(text) = 0 THEN Failed(ErrZeroTokens)
    ELSE [e2e |-> end - first, ttft |-> first - start,
          throughput |-> Throughput(TokenCount(text), (end - first) - (first - start)),
          tokens |-> TokenCount(text), response |-> text, err |-> NoError]

\* what the run returns after the end of the stream
RunResult(start, first, end, text) ==
    IF IsZero(first) THEN Failed(ErrNoContent)
    ELSE IF TokenCount(text) = 0 THEN Failed(ErrZeroTokens)
    ELSE [e2e |-> end - start, ttft |-> first - start,
          throughput |-> Throughput(TokenCount(text), (end - start) - (first - start)),
          tokens |-> TokenCount(text), response |-> text, err |-> NoError]

\* the deadline of the context the run is given
RunDeadline == MaxClock

\* mutant of CtxExpired: the expiry of the context is never observed
CtxExpiredNever(t) == FALSE

\* the context of the run has expired at time t (ctx.Err() is
\* context.DeadlineExceeded, and the transport aborts the call in progress)
CtxExpired(t) == t >= RunDeadline


StreamIdle ==
    /\ streamPc = "none"
    /\ clock = 0
    /\ startTime = 0
    /\ firstTokenTime = 0
    /\ endTime = 0
    /\ fullResponseContent = EmptyString
    /\ chunkCount = 0
    /\ response = NoChoices
    /\ runOutcome = <<>>

\* the state of a run when singleTestRun (mode streaming) or
\* singleToolCallRun (mode tool-calling) has read startTime and calls
\* CreateChatCompletionStream
StreamStart ==
    /\ program = "run"
    /\ mode \in {ModeStreaming, ModeToolCalling}
    /\ streamPc = "start"
    /\ clock = 1
    /\ startTime = 1
    /\ firstTokenTime = 0
    /\ endTime = 0
    /\ fullResponseContent = EmptyString
    /\ chunkCount = 0
    /\ response = NoChoices
    /\ runOutcome = <<>>

\* time passes, while the run waits for the stream to be created or for the
\* next event
ClockTick ==
    /\ streamPc \in {"start", "recv"}
    /\ clock < MaxClock
    /\ clock' = clock + 1
    /\ UNCHANGED <<streamPc, startTime, firstTokenTime, endTime,
                   fullResponseContent, chunkCount, response, runOutcome>>
    /\ UNCHANGED <<diagVars, batchVars, orderVars, reportVars, mainVars, auxVars>>

\* CreateChatCompletionStream returns the stream or an error (whatever made
\* it fail, the expiry of the context included)
CreateStream(createOk) ==
    /\ streamPc = "start"
    /\ UNCHANGED startTime
    /\ IF createOk
       THEN /\ streamPc' = "recv"
            /\ UNCHANGED runOutcome
       ELSE /\ streamPc' = "returned"
            /\ runOutcome' = Failed(ErrCreate)
    /\ UNCHANGED <<clock, firstTokenTime, endTime, fullResponseContent,
                   chunkCount, response>>
    /\ UNCHANGED <<diagVars, batchVars, orderVars, reportVars, mainVars, auxVars>>

\* one iteration of the receiving loop on an event: chunkCount++, an event
\* without choices is skipped, otherwise the first-token test and the appends
RecvEvent(ev) ==
    /\ streamPc = "recv"
    /\ chunkCount < MaxEvents
    /\ response' = ev
    /\ chunkCount' = chunkCount + 1
    /\ IF ev.choices = 0
       THEN UNCHANGED <<firstTokenTime, fullResponseContent>>
       ELSE /\ firstTokenTime' = FirstTokenAfter(mode, firstTokenTime, ev, clock)
            /\ fullResponseContent' = fullResponseContent \o Appended(mode, ev)
    /\ UNCHANGED <<streamPc, clock, startTime, endTime, runOutcome>>
    /\ UNCHANGED <<diagVars, batchVars, orderVars, reportVars, mainVars, auxVars>>

\* stream.Recv() returns io.EOF: endTime := time.Now() and the outcome
RecvEOF ==
    /\ streamPc = "recv"
    /\ endTime' = clock
    /\ runOutcome' = RunResult(startTime, firstTokenTime, clock, fullResponseContent)
    /\ streamPc' = "returned"
    /\ UNCHANGED <<clock, startTime, firstTokenTime, fullResponseContent,
                   chunkCount, response>>
    /\ UNCHANGED <<diagVars, batchVars, orderVars, reportVars, mainVars, auxVars>>

\* stream.Recv() returns another error: the timeout error when the context's
\* deadline has passed, the stream error otherwise
RecvError ==
    /\ streamPc = "recv"
    /\ runOutcome' = Failed(IF CtxExpired(clock) THEN ErrTimeout ELSE ErrStream)
    /\ streamPc' = "returned"
    /\ UNCHANGED <<clock, startTime, firstTokenTime, endTime,
                   fullResponseContent, chunkCount, response>>
    /\ UNCHANGED <<diagVars, batchVars, orderVars, reportVars, mainVars, auxVars>>

\* ------------------------------------------------------------------------
\* Report generation: generateMarkdownReport and generateDiagnosticReport
\* ------------------------------------------------------------------------
\* the TestResult records a report is generated from, but for the provider:
\* a failed one has no metrics (testProviderMetrics), of a successful one the
\* time to first token is no more than the end-to-end latency
TestResults ==
    {r \in [Success : {TRUE}, Throughput : 1..2, TTFT : 1..2,
            E2ELatency : 1..2] : r.TTFT <= r.E2ELatency}
    \cup
    {[Success |-> FALSE, Throughput |-> 0, TTFT |-> 0, E2ELatency |-> 0]}

\* the DiagnosticSummary records a report is generated from, but for the
\* provider: one without a successful request has no averages
DiagnosticSummaries ==
    {r \in [Successful : {1}, AvgThroughput : 1..2, AvgTTFT : 1..2,
            AvgE2ELatency : 1..2] : r.AvgTTFT <= r.AvgE2ELatency}
    \cup
    {[Successful |-> 0, AvgThroughput |-> 0, AvgTTFT |-> 0,
      AvgE2ELatency |-> 0]}

\* the record r as the i-th element of the slice: its provider is named after
\* its place
Named(r, i) ==
    IF "Success" \in DOMAIN r
    THEN [Provider |-> i, Success |-> r.Success, Throughput |-> r.Throughput,
          TTFT |-> r.TTFT, E2ELatency |-> r.E2ELatency]
    ELSE [Provider |-> i, Successful |-> r.Successful,
          AvgThroughput |-> r.AvgThroughput, AvgTTFT |-> r.AvgTTFT,
          AvgE2ELatency |-> r.AvgE2ELatency]

\* the slices of at most MaxRecords records of the set S
Slices(S) ==
    UNION {{[i \in 1..n |-> Named(f[i], i)] : f \in [1..n -> S]} :
              n \in 0..MaxRecords}

\* the record takes part in the rankings (variant: every record does)
IsSuccessfulAlways(r) == TRUE

\* the record takes part in the rankings: r.Success of a TestResult,
\* r.Successful > 0 of a DiagnosticSummary
IsSuccessful(r) ==
    IF "Success" \in DOMAIN r THEN r.Success ELSE r.Successful > 0

\* the comparison of the sort (variant: ascending for every key)
BetterAscending(key, a, b) == a[key] < b[key]

\* the comparison of the sort by the key: a is to be placed before b
Better(key, a, b) ==
    IF key \in {"Throughput", "AvgThroughput"}
    THEN a[key] > b[key]
    ELSE a[key] < b[key]

\* s[i], s[j] = s[j], s[i]
Swap(s, i, j) == [s EXCEPT ![i] = s[j], ![j] = s[i]]

\* for j := ...; j < len(s); j++ { if better(s[j], s[i]) { swap } }
RECURSIVE InnerLoop(_, _, _, _)
InnerLoop(s, key, i, j) ==
    IF j > Len(s)
    THEN s
    ELSE InnerLoop(IF Better(key, s[j], s[i]) THEN Swap(s, i, j) ELSE s,
                   key, i, j + 1)

\* for i := ...; i < len(s); i++ { for j := i + 1; ... }
RECURSIVE OuterLoop(_, _, _)
OuterLoop(s, key, i) ==
    IF i > Len(s)
    THEN s
    ELSE OuterLoop(InnerLoop(s, key, i, i + 1), key, i + 1)

\* the sort of the slice by the key, in place
SortBy(s, key) == OuterLoop(s, key, 1)

\* the leaderboards of generateMarkdownReport (variant: no leaderboard by
\* end-to-end latency)
MarkdownViewsTwo == <<"Throughput", "TTFT">>

\* the leaderboards of generateMarkdownReport, in the order it writes them
MarkdownViews == <<"Throughput", "TTFT", "E2ELatency">>

\* the leaderboards of generateDiagnosticReport, in the order it writes them
DiagnosticViews == <<"AvgThroughput", "AvgTTFT">>

\* the leaderboards written one after the other: the slice is sorted again for
\* each of them, from the order the leaderboard before left it in
RECURSIVE Leaderboards(_, _)
Leaderboards(s, views) ==
    IF views = <<>>
    THEN <<>>
    ELSE LET sorted == SortBy(s, Head(views))
         IN  <<[view |-> Head(views), rows |-> sorted]>>
                 \o Leaderboards(sorted, Tail(views))

\* the number of elements of s that satisfy IsSuccessful, or do not
CountSuccess(s, wanted) ==
    Cardinality({i \in 1..Len(s) : IsSuccessful(s[i]) = wanted})

\* the successful records of s, in the order of s
Successes(s) == SelectSeq(s, IsSuccessful)

\* the records of s that are not successful, in the order of s
Failures(s) == SelectSeq(s, LAMBDA r : ~ IsSuccessful(r))

\* the text of REPORT.md as the sections it is made of
MarkdownReport(rs) ==
    [kind            |-> "markdown",
     total           |-> Len(rs),
     successful      |-> CountSuccess(rs, TRUE),
     failed          |-> CountSuccess(rs, FALSE),
     successfulTests |-> Successes(rs),
     failedTests     |-> Failures(rs),
     leaderboards    |-> IF CountSuccess(rs, TRUE) > 0
                         THEN Leaderboards(Successes(rs), MarkdownViews)
                         ELSE <<>>]

\* the text of DIAGNOSTIC-REPORT.md as the sections it is made of: it has a
\* table of all the providers and no table of the failed ones
DiagnosticReport(rs) ==
    [kind            |-> "diagnostic",
     total           |-> Len(rs),
     detailed        |-> rs,
     leaderboards    |-> IF Len(Successes(rs)) > 0
                         THEN Leaderboards(Successes(rs), DiagnosticViews)
                         ELSE <<>>]

NoReport == [kind |-> "none"]

ReportIdle ==
    /\ reportPc = "none"
    /\ reportInput = <<>>
    /\ report = NoReport

\* main calls generateMarkdownReport or generateDiagnosticReport with the
\* results it has gathered
ReportStart ==
    /\ program \in {"markdown-report", "diagnostic-report"}
    /\ mode = "streaming"
    /\ reportPc = "input"
    /\ reportInput \in IF program = "markdown-report"
                       THEN Slices(TestResults)
                       ELSE Slices(DiagnosticSummaries)
    /\ report = NoReport

\* generateMarkdownReport: the report is built and written to REPORT.md
GenerateMarkdownReport(writeOk) ==
    /\ program = "markdown-report"
    /\ reportPc = "input"
    /\ report' = MarkdownReport(reportInput)
    /\ reportPc' = IF writeOk THEN "written" ELSE "failed"
    /\ UNCHANGED reportInput
    /\ UNCHANGED <<diagVars, batchVars, orderVars, streamVars, mainVars, auxVars>>

\* generateDiagnosticReport: the report is built and written to
\* DIAGNOSTIC-REPORT.md
GenerateDiagnosticReport(writeOk) ==
    /\ program = "diagnostic-report"
    /\ reportPc = "input"
    /\ report' = DiagnosticReport(reportInput)
    /\ reportPc' = IF writeOk THEN "written" ELSE "failed"
    /\ UNCHANGED reportInput
    /\ UNCHANGED <<diagVars, batchVars, orderVars, streamVars, mainVars, auxVars>>

\* ------------------------------------------------------------------------
\* main: the providers are tested, their records gathered in one slice, and
\* the report generated from it
\* ------------------------------------------------------------------------
Providers == 1..MaxProviders

\* the providers run as goroutines main waits for: in diagnostic mode when
\* more than one provider is tested, otherwise with --all
Concurrent ==
    IF diagnostic THEN providersToTest > 1 ELSE testAll

MainIdle ==
    /\ mainPc = "none"
    /\ diagnostic = FALSE
    /\ testAll = FALSE
    /\ providersToTest = 0
    /\ nextProvider = 0
    /\ provPc = [p \in Providers |-> "pending"]
    /\ wgCount = 0
    /\ resultsMutex = 0
    /\ appendLocal = [p \in Providers |-> <<>>]
    /\ mainResults = <<>>
    /\ produced = {}
    /\ reported = <<>>

\* main has parsed its flags and selected the providers to test
MainStart ==
    /\ program = "main"
    /\ mode = "streaming"
    /\ mainPc = "dispatch"
    /\ diagnostic \in BOOLEAN
    /\ testAll \in BOOLEAN
    /\ providersToTest \in Providers
    /\ nextProvider = 1
    /\ provPc = [p \in Providers |-> "pending"]
    /\ wgCount = 0
    /\ resultsMutex = 0
    /\ appendLocal = [p \in Providers |-> <<>>]
    /\ mainResults = <<>>
    /\ produced = {}
    /\ reported = <<>>

\* one turn of the loop over the providers: the provider is started as a
\* goroutine after wg.Add(1), or called, and then the loop goes on when the
\* call has returned
StartProvider ==
    /\ program = "main"
    /\ mainPc = "dispatch"
    /\ nextProvider <= providersToTest
    /\ Concurrent \/ \A p \in 1..(nextProvider - 1) : provPc[p] = "done"
    /\ provPc' = [provPc EXCEPT ![nextProvider] = "running"]
    /\ wgCount' = IF Concurrent THEN wgCount + 1 ELSE wgCount
    /\ nextProvider' = nextProvider + 1
    /\ UNCHANGED <<mainPc, diagnostic, testAll, providersToTest, resultsMutex,
                   appendLocal, mainResults, produced, reported>>
    /\ UNCHANGED <<diagVars, batchVars, orderVars, streamVars, reportVars, auxVars>>

\* the loop over the providers is over (the last call has returned when the
\* providers are called): main goes on to wait for the goroutines
LoopDone ==
    /\ program = "main"
    /\ mainPc = "dispatch"
    /\ nextProvider > providersToTest
    /\ Concurrent \/ \A p \in 1..providersToTest : provPc[p] = "done"
    /\ mainPc' = "join"
    /\ UNCHANGED <<diagnostic, testAll, providersToTest, nextProvider, provPc,
                   wgCount, resultsMutex, appendLocal, mainResults, produced,
                   reported>>
    /\ UNCHANGED <<diagVars, batchVars, orderVars, streamVars, reportVars, auxVars>>

\* the return of the provider's function: wg.Done() when it has a WaitGroup
Return(p) ==
    /\ provPc' = [provPc EXCEPT ![p] = "done"]
    /\ wgCount' = IF Concurrent THEN wgCount - 1 ELSE wgCount

\* testProviderMetrics or diagnosticMode has done its measurements: it goes
\* on to append its record, or returns without one when its log file could
\* not be created
ProviderMeasured(p, hasRecord) ==
    /\ program = "main"
    /\ provPc[p] = "running"
    /\ IF hasRecord
       THEN /\ provPc' = [provPc EXCEPT ![p] = "lock"]
            /\ produced' = produced \cup {p}
            /\ UNCHANGED wgCount
       ELSE /\ Return(p)
            /\ UNCHANGED produced
    /\ UNCHANGED <<mainPc, diagnostic, testAll, providersToTest, nextProvider,
                   resultsMutex, appendLocal, mainResults, reported>>
    /\ UNCHANGED <<diagVars, batchVars, orderVars, streamVars, reportVars, auxVars>>

\* mutex.Lock() (variant: it does not wait for the mutex to be free)
LockNoWait(p) ==
    /\ program = "main"
    /\ provPc[p] = "lock"
    /\ resultsMutex' = p
    /\ provPc' = [provPc EXCEPT ![p] = "read"]
    /\ UNCHANGED <<mainPc, diagnostic, testAll, providersToTest, nextProvider,
                   wgCount, appendLocal, mainResults, produced, reported>>
    /\ UNCHANGED <<diagVars, batchVars, orderVars, streamVars, reportVars, auxVars>>

\* mutex.Lock()
Lock(p) ==
    /\ program = "main"
    /\ provPc[p] = "lock"
    /\ resultsMutex = 0
    /\ resultsMutex' = p
    /\ provPc' = [provPc EXCEPT ![p] = "read"]
    /\ UNCHANGED <<mainPc, diagnostic, testAll, providersToTest, nextProvider,
                   wgCount, appendLocal, mainResults, produced, reported>>
    /\ UNCHANGED <<diagVars, batchVars, orderVars, streamVars, reportVars, auxVars>>

\* *results = append(*results, result), first half: the slice is read
AppendRead(p) ==
    /\ program = "main"
    /\ provPc[p] = "read"
    /\ appendLocal' = [appendLocal EXCEPT ![p] = mainResults]
    /\ provPc' = [provPc EXCEPT ![p] = "write"]
    /\ UNCHANGED <<mainPc, diagnostic, testAll, providersToTest, nextProvider,
                   wgCount, resultsMutex, mainResults, produced, reported>>
    /\ UNCHANGED <<diagVars, batchVars, orderVars, streamVars, reportVars, auxVars>>

\* *results = append(*results, result), second half: the slice read, with the
\* record at its end, is stored
AppendWrite(p) ==
    /\ program = "main"
    /\ provPc[p] = "write"
    /\ mainResults' = Append(appendLocal[p], p)
    /\ provPc' = [provPc EXCEPT ![p] = "unlock"]
    /\ UNCHANGED <<mainPc, diagnostic, testAll, providersToTest, nextProvider,
                   wgCount, resultsMutex, appendLocal, produced, reported>>
    /\ UNCHANGED <<diagVars, batchVars, orderVars, streamVars, reportVars, auxVars>>

\* mutex.Unlock(), and the provider's function returns
Unlock(p) ==
    /\ program = "main"
    /\ provPc[p] = "unlock"
    /\ resultsMutex' = 0
    /\ Return(p)
    /\ UNCHANGED <<mainPc, diagnostic, testAll, providersToTest, nextProvider,
                   appendLocal, mainResults, produced, reported>>
    /\ UNCHANGED <<diagVars, batchVars, orderVars, streamVars, reportVars, auxVars>>

\* wg.Wait() (variant: it returns at once)
JoinNoWait ==
    /\ program = "main"
    /\ mainPc = "join"
    /\ mainPc' = "report"
    /\ UNCHANGED <<diagnostic, testAll, providersToTest, nextProvider, provPc,
                   wgCount, resultsMutex, appendLocal, mainResults, produced,
                   reported>>
    /\ UNCHANGED <<diagVars, batchVars, orderVars, streamVars, reportVars, auxVars>>

\* wg.Wait() where main has started goroutines: it returns when the counter
\* is zero
Join ==
    /\ program = "main"
    /\ mainPc = "join"
    /\ Concurrent => wgCount = 0
    /\ mainPc' = "report"
    /\ UNCHANGED <<diagnostic, testAll, providersToTest, nextProvider, provPc,
                   wgCount, resultsMutex, appendLocal, mainResults, produced,
                   reported>>
    /\ UNCHANGED <<diagVars, batchVars, orderVars, streamVars, reportVars, auxVars>>

\* main calls generateDiagnosticReport or generateMarkdownReport with the
\* results slice
GenerateReport ==
    /\ program = "main"
    /\ mainPc = "report"
    /\ reported' = mainResults
    /\ mainPc' = "exit"
    /\ UNCHANGED <<diagnostic, testAll, providersToTest, nextProvider, provPc,
                   wgCount, resultsMutex, appendLocal, mainResults, produced>>
    /\ UNCHANGED <<diagVars, batchVars, orderVars, streamVars, reportVars, auxVars>>

\* ------------------------------------------------------------------------
\* Response saving: two batches whose runs return the same, one of them
\* without --save-responses
\* ------------------------------------------------------------------------
\* what a run returns: the outcome with the response text, which is not empty
\* when the run succeeded (a text of 0 tokens is an error) and empty otherwise
WithResponse(o) ==
    [e2e |-> o.e2e, ttft |-> o.ttft, throughput |-> o.throughput,
     tokens |-> o.tokens, err |-> o.err,
     response |-> IF o.err = NoError THEN "text" ELSE ""]

\* what the runs of a batch of mode m can return, by run number
ReturnsOf(m) ==
    {seq \in [1..TotalRuns(m) ->
                 {WithResponse(o) : o \in ArrivalOutcomes(m)}] :
        \A n \in 1..TotalRuns(m) :
            seq[n] \in {WithResponse(o) : o \in BatchOutcomes(RunMode(m, n), 0)}}

\* the name of the response file of run n of sub-mode sm:
\* "%s-run%d-%s-response.txt"
ResponseFile(n, sm) == <<"run", n, sm, "response.txt">>

NoFiles == [name \in {} |-> ""]

\* the files after the goroutine of run n has saved its response: the file
\* is written when the flag is set, the run succeeded and returned a text;
\* a failure of os.WriteFile is logged
SaveResponse(files, on, o, n, sm, writeOk) ==
    IF on /\ o.err = NoError /\ o.response # "" /\ writeOk
    THEN [name \in DOMAIN files \cup {ResponseFile(n, sm)} |->
             IF name = ResponseFile(n, sm) THEN o.response ELSE files[name]]
    ELSE files

\* the runResult the goroutine sends (variant: a response that could not be
\* saved makes the run a failed one)
RunResultSentSaved(o, on, writeOk) ==
    IF on /\ o.err = NoError /\ ~ writeOk
    THEN [e2e |-> 0, ttft |-> 0, throughput |-> 0, tokens |-> 0,
          err |-> "error saving response"]
    ELSE [e2e |-> o.e2e, ttft |-> o.ttft, throughput |-> o.throughput,
          tokens |-> o.tokens, err |-> o.err]

\* the runResult the goroutine sends on resultsChan: what the run returned
\* but for the response text
RunResultSent(o, on, writeOk) ==
    [e2e |-> o.e2e, ttft |-> o.ttft, throughput |-> o.throughput,
     tokens |-> o.tokens, err |-> o.err]

SaveIdle ==
    /\ savePc = "none"
    /\ saveResponses = [x \in Execs |-> FALSE]
    /\ saveOutcomes = <<>>
    /\ saveNum = 0
    /\ saveAcc = [x \in Execs |-> BatchAccInit]
    /\ responseFiles = [x \in Execs |-> NoFiles]
    /\ saveBuilt = [x \in Execs |-> <<>>]

\* two batches of the same mode whose runs return the same; the second is run
\* without --save-responses
SaveStart ==
    /\ program = "save-responses"
    /\ mode \in TestModes
    /\ savePc = "runs"
    /\ \E on \in BOOLEAN : saveResponses = [x \in Execs |-> x = 1 /\ on]
    /\ saveOutcomes \in ReturnsOf(mode)
    /\ saveNum = 0
    /\ saveAcc = [x \in Execs |-> BatchAccInit]
    /\ responseFiles = [x \in Execs |-> NoFiles]
    /\ saveBuilt = [x \in Execs |-> <<>>]

\* in both batches the next run returns: its goroutine saves the response,
\* sends the runResult, and the collecting loop receives it
RunSaved(writeOk) ==
    /\ program = "save-responses"
    /\ savePc = "runs"
    /\ saveNum < TotalRuns(mode)
    /\ saveNum' = saveNum + 1
    /\ responseFiles' =
          [x \in Execs |->
              SaveResponse(responseFiles[x], saveResponses[x],
                           saveOutcomes[saveNum'], saveNum',
                           RunMode(mode, saveNum'), writeOk)]
    /\ saveAcc' =
          [x \in Execs |->
              ReceiveRun(saveAcc[x],
                         RunResultSent(saveOutcomes[saveNum'],
                                       saveResponses[x], writeOk))]
    /\ UNCHANGED <<savePc, saveResponses, saveOutcomes, saveBuilt>>
    /\ UNCHANGED <<diagVars, batchVars, orderVars, streamVars, reportVars,
                   mainVars, configVars, selectVars>>

\* both channels are closed and drained: the TestResults are built
BuildSaved ==
    /\ program = "save-responses"
    /\ savePc = "runs"
    /\ saveNum = TotalRuns(mode)
    /\ saveBuilt' = [x \in Execs |-> TestResultOf(mode, saveAcc[x])]
    /\ savePc' = "built"
    /\ UNCHANGED <<saveResponses, saveOutcomes, saveNum, saveAcc, responseFiles>>
    /\ UNCHANGED <<diagVars, batchVars, orderVars, streamVars, reportVars,
                   mainVars, configVars, selectVars>>

\* ------------------------------------------------------------------------
\* LoadConfig and ValidateConfig
\* ------------------------------------------------------------------------
\* the provider entries of a group of the file: complete, without provider
\* name, without model, and of a provider that [api_keys] may not hold
GroupProviderConfigs ==
    {[Provider |-> "nim", Model |-> "m"], [Provider |-> "", Model |-> "m"],
     [Provider |-> "nim", Model |-> ""], [Provider |-> "novita", Model |-> "m"]}

\* the groups of the file; DiagnosticParams is "nil" where the file has no
\* diagnostic_params table
TestGroups ==
    [Name : {"", "g"},
     Mode : {"", "streaming", "tool-calling", "mixed", "diagnostic", "bogus"},
     Providers : UNION {[1..n -> GroupProviderConfigs] :
                           n \in 0..MaxGroupProviders},
     DiagnosticParams : {"nil", "set"}]

NilError == [kind |-> "nil", group |-> -1, provider |-> -1]

\* fmt.Errorf of ValidateConfig, with the indexes it names
ConfigError(kind, i, j) == [kind |-> kind, group |-> i, provider |-> j]

validModes == {"streaming", "tool-calling", "mixed", "diagnostic"}

\* the loop over the providers of group i, from its j-th provider on
RECURSIVE ProviderError(_, _, _, _)
ProviderError(i, ps, j, keys) ==
    IF j > Len(ps) THEN NilError
    ELSE IF ps[j].Provider = ""
    THEN ConfigError("provider name is required", i, j - 1)
    ELSE IF ps[j].Model = ""
    THEN ConfigError("model is required", i, j - 1)
    ELSE IF ps[j].Provider \notin keys
    THEN ConfigError("no API key defined in [api_keys]", i, j - 1)
    ELSE ProviderError(i, ps, j + 1, keys)

\* the body of ValidateConfig's loop (variant: diagnostic_params are let
\* through in every group)
GroupErrorAnyParams(i, group, keys) ==
    IF group.Name = ""
    THEN ConfigError("name is required", i, -1)
    ELSE IF group.Mode = ""
    THEN ConfigError("mode is required", i, -1)
    ELSE IF group.Mode \notin validModes
    THEN ConfigError("invalid mode", i, -1)
    ELSE IF Len(group.Providers) = 0
    THEN ConfigError("no providers defined", i, -1)
    ELSE ProviderError(i, group.Providers, 1, keys)

\* the body of ValidateConfig's loop for group number i
GroupError(i, group, keys) ==
    IF group.Name = ""
    THEN ConfigError("name is required", i, -1)
    ELSE IF group.Mode = ""
    THEN ConfigError("mode is required", i, -1)
    ELSE IF group.Mode \notin validModes
    THEN ConfigError("invalid mode", i, -1)
    ELSE IF Len(group.Providers) = 0
    THEN ConfigError("no providers defined", i, -1)
    ELSE IF group.Mode # "diagnostic" /\ group.DiagnosticParams # "nil"
    THEN ConfigError("diagnostic_params can only be used with mode='diagnostic'",
                     i, -1)
    ELSE ProviderError(i, group.Providers, 1, keys)

\* MergeDefaults on a group, as far as ValidateConfig reads the group: a
\* diagnostic group without diagnostic_params is given them
MergeDefaultsGroup(group) ==
    IF group.Mode = "diagnostic" /\ group.DiagnosticParams = "nil"
    THEN [group EXCEPT !.DiagnosticParams = "set"]
    ELSE group

ConfigIdle ==
    /\ cfgPc = "none"
    /\ cfgKeys = {}
    /\ cfgNum = 0
    /\ cfgGroups = <<>>
    /\ cfgErr = NilError
    /\ cfgLoaded = FALSE

\* LoadConfig is called with the name of a file
ConfigStart ==
    /\ program = "config"
    /\ mode = "streaming"
    /\ cfgPc = "load"
    /\ cfgKeys \in {{}, {"nim"}}
    /\ cfgNum \in 0..MaxGroups
    /\ cfgGroups = <<>>
    /\ cfgErr = NilError
    /\ cfgLoaded = FALSE

\* the file is read and parsed, and the defaults merged; LoadConfig returns
\* the error when it cannot be read or is not TOML
ReadConfig(readOk) ==
    /\ program = "config"
    /\ cfgPc = "load"
    /\ IF readOk
       THEN /\ cfgPc' = "validate"
            /\ UNCHANGED cfgErr
       ELSE /\ cfgPc' = "returned"
            /\ cfgErr' = ConfigError("error reading config file", -1, -1)
    /\ UNCHANGED <<cfgKeys, cfgNum, cfgGroups, cfgLoaded>>
    /\ UNCHANGED <<diagVars, batchVars, orderVars, streamVars, reportVars,
                   mainVars, saveVars, selectVars>>

\* ValidateConfig begins: a configuration without groups is an error
ValidateEntry ==
    /\ program = "config"
    /\ cfgPc = "validate"
    /\ IF cfgNum = 0
       THEN /\ cfgPc' = "returned"
            /\ cfgErr' = ConfigError("no test groups defined", -1, -1)
       ELSE /\ cfgPc' = "groups"
            /\ UNCHANGED cfgErr
    /\ UNCHANGED <<cfgKeys, cfgNum, cfgGroups, cfgLoaded>>
    /\ UNCHANGED <<diagVars, batchVars, orderVars, streamVars, reportVars,
                   mainVars, saveVars, selectVars>>

\* one turn of ValidateConfig's loop over the groups: the next group of the
\* file is checked, and its first error returned, by LoadConfig as well
ValidateGroup(group) ==
    /\ program = "config"
    /\ cfgPc = "groups"
    /\ Len(cfgGroups) < cfgNum
    /\ cfgGroups' = Append(cfgGroups, group)
    /\ cfgErr' = GroupError(Len(cfgGroups), MergeDefaultsGroup(group), cfgKeys)
    /\ cfgPc' = IF cfgErr' = NilError THEN "groups" ELSE "returned"
    /\ UNCHANGED <<cfgKeys, cfgNum, cfgLoaded>>
    /\ UNCHANGED <<diagVars, batchVars, orderVars, streamVars, reportVars,
                   mainVars, saveVars, selectVars>>

\* the loop is over: ValidateConfig returns nil and LoadConfig the config
ValidateDone ==
    /\ program = "config"
    /\ cfgPc = "groups"
    /\ Len(cfgGroups) = cfgNum
    /\ cfgPc' = "returned"
    /\ cfgLoaded' = TRUE
    /\ UNCHANGED <<cfgKeys, cfgNum, cfgGroups, cfgErr>>
    /\ UNCHANGED <<diagVars, batchVars, orderVars, streamVars, reportVars,
                   mainVars, saveVars, selectVars>>

\* ------------------------------------------------------------------------
\* main: the providers to test are selected from the flags
\* ------------------------------------------------------------------------
\* the keys of allProviderConfigs
ProviderNames == {"generic", "nim", "nahcrof", "novita", "nebius", "minimax"}

\* config.APIKey != "" && config.Model != ""
Configured(config) == config.APIKey # "" /\ config.Model # ""

SelectIdle ==
    /\ selPc = "none"
    /\ allProviderConfigs = [name \in ProviderNames |->
                                [APIKey |-> "", Model |-> ""]]
    /\ selFlags = [all |-> FALSE, provider |-> ""]
    /\ selected = {}

AuxIdle == SaveIdle /\ ConfigIdle /\ SelectIdle

\* main has built allProviderConfigs from the environment and the flags
SelectStart ==
    /\ program = "select"
    /\ mode = "streaming"
    /\ selPc = "flags"
    /\ allProviderConfigs \in [ProviderNames ->
                                  [APIKey : {"", "key"}, Model : {"", "model"}]]
    /\ selFlags \in [all : BOOLEAN,
                     provider : ProviderNames \cup {"", "other"}]
    /\ selected = {}

\* providersToTest is not empty, or main ends with log.Fatal
SelectedOrFatal(names) ==
    /\ selected' = names
    /\ selPc' = IF names = {} THEN "fatal" ELSE "selected"
    /\ UNCHANGED <<allProviderConfigs, selFlags>>
    /\ UNCHANGED <<diagVars, batchVars, orderVars, streamVars, reportVars,
                   mainVars, saveVars, configVars>>

\* case *testAll: every entry of the map that has a key and a model is
\* appended (the order of the map's iteration is not modelled)
SelectAll ==
    /\ program = "select"
    /\ selPc = "flags"
    /\ selFlags.all
    /\ SelectedOrFatal({name \in ProviderNames :
                           Configured(allProviderConfigs[name])})

\* case *providerName != "": the provider named, when it is known and has a
\* key and a model
SelectNamed ==
    /\ program = "select"
    /\ selPc = "flags"
    /\ ~ selFlags.all
    /\ selFlags.provider # ""
    /\ SelectedOrFatal(
          IF /\ selFlags.provider \in ProviderNames
             /\ Configured(allProviderConfigs[selFlags.provider])
          THEN {selFlags.provider}
          ELSE {})

\* default: the generic provider, when it has a key and a model
SelectDefault ==
    /\ program = "select"
    /\ selPc = "flags"
    /\ ~ selFlags.all
    /\ selFlags.provider = ""
    /\ SelectedOrFatal(
          IF Configured(allProviderConfigs["generic"])
          THEN {"generic"}
          ELSE {})

\* ------------------------------------------------------------------------
\* Specification: main runs one provider either in diagnostic mode or as a
\* benchmark batch
\* ------------------------------------------------------------------------
DiagNext ==
    \/ \E logOk \in BOOLEAN : DiagEntry(logOk)
    \/ \E w \in Workers : WorkerStart(w)
    \/ \E w \in Workers : RequestReturns(w)
    \/ \E w \in Workers : WorkerSelect(w)
    \/ Advance
    \/ CloseResults
    \/ Collect
    \/ Summarize

BatchNext ==
    \/ \E logOk \in BOOLEAN : BatchEntry(logOk)
    \/ LaunchRun
    \/ LaunchDone
    \/ \E r \in Runs : RunReturns(r)
    \/ BatchAdvance
    \/ CloseRuns
    \/ CollectRun
    \/ Finish

\* main calls diagnosticMode for the provider
DiagInit == DiagStart /\ BatchIdle /\ OrderIdle /\ StreamIdle
    /\ ReportIdle /\ MainIdle /\ AuxIdle

\* main calls testProviderMetrics for the provider
BatchInit == BatchStart /\ DiagIdle /\ OrderIdle /\ StreamIdle
    /\ ReportIdle /\ MainIdle /\ AuxIdle

Init == DiagInit \/ BatchInit

Next == DiagNext \/ BatchNext

Spec == Init /\ [][Next]_vars

\* one provider run in diagnostic mode
SpecDiag == DiagInit /\ [][DiagNext]_vars

\* one provider run as a benchmark batch
SpecBatch == BatchInit /\ [][BatchNext]_vars

\* one provider run in diagnostic mode, every goroutine and the clock being
\* scheduled as long as it can take a step
FairSpecDiag == SpecDiag /\ WF_vars(DiagNext)

OrderNext ==
    \/ ReceiveBoth
    \/ BuildBoth

\* two collectors fed the same outcomes in two orders
OrderInit == OrderStart /\ DiagIdle /\ BatchIdle /\ StreamIdle
    /\ ReportIdle /\ MainIdle /\ AuxIdle

SpecOrder == OrderInit /\ [][OrderNext]_vars

StreamNext ==
    \/ ClockTick
    \/ \E createOk \in BOOLEAN : CreateStream(createOk)
    \/ \E ev \in StreamEvents : RecvEvent(ev)
    \/ RecvEOF
    \/ RecvError

\* one call of singleTestRun or singleToolCallRun
StreamInit == StreamStart /\ DiagIdle /\ BatchIdle /\ OrderIdle
    /\ ReportIdle /\ MainIdle /\ AuxIdle

SpecRun == StreamInit /\ [][StreamNext]_vars

\* a call blocked in the transport returns once the context has expired
ExpiredReturn ==
    /\ CtxExpired(clock)
    /\ \/ \E createOk \in BOOLEAN : CreateStream(createOk)
       \/ \E ev \in StreamEvents : RecvEvent(ev)
       \/ RecvEOF
       \/ RecvError

\* one call of singleTestRun or singleToolCallRun: time goes on, and the
\* transport does not block beyond the expiry of the context (before that the
\* provider may stay silent for ever)
FairSpecRun == SpecRun /\ WF_vars(ClockTick) /\ WF_vars(ExpiredReturn)

ReportNext ==
    \/ \E writeOk \in BOOLEAN : GenerateMarkdownReport(writeOk)
    \/ \E writeOk \in BOOLEAN : GenerateDiagnosticReport(writeOk)

\* one call of generateMarkdownReport or generateDiagnosticReport
ReportInit == ReportStart /\ DiagIdle /\ BatchIdle /\ OrderIdle /\ StreamIdle
    /\ MainIdle /\ AuxIdle

SpecReport == ReportInit /\ [][ReportNext]_vars

MainNext ==
    \/ StartProvider
    \/ LoopDone
    \/ \E p \in Providers, hasRecord \in BOOLEAN : ProviderMeasured(p, hasRecord)
    \/ \E p \in Providers : Lock(p)
    \/ \E p \in Providers : AppendRead(p)
    \/ \E p \in Providers : AppendWrite(p)
    \/ \E p \in Providers : Unlock(p)
    \/ Join
    \/ GenerateReport

\* main from the loop over the providers to the report
MainInit == MainStart /\ DiagIdle /\ BatchIdle /\ OrderIdle /\ StreamIdle
    /\ ReportIdle /\ AuxIdle

SpecMain == MainInit /\ [][MainNext]_vars

SaveNext ==
    \/ \E writeOk \in BOOLEAN : RunSaved(writeOk)
    \/ BuildSaved

\* two batches with the same returns, with and without response saving
SaveInit == SaveStart /\ DiagIdle /\ BatchIdle /\ OrderIdle /\ StreamIdle
    /\ ReportIdle /\ MainIdle /\ ConfigIdle /\ SelectIdle

SpecSave == SaveInit /\ [][SaveNext]_vars

ConfigNext ==
    \/ \E readOk \in BOOLEAN : ReadConfig(readOk)
    \/ ValidateEntry
    \/ \E group \in TestGroups : ValidateGroup(group)
    \/ ValidateDone

\* one call of LoadConfig
ConfigInit == ConfigStart /\ DiagIdle /\ BatchIdle /\ OrderIdle /\ StreamIdle
    /\ ReportIdle /\ MainIdle /\ SaveIdle /\ SelectIdle

SpecConfig == ConfigInit /\ [][ConfigNext]_vars

SelectNext ==
    \/ SelectAll
    \/ SelectNamed
    \/ SelectDefault

\* main from the flags to providersToTest
SelectInit == SelectStart /\ DiagIdle /\ BatchIdle /\ OrderIdle /\ StreamIdle
    /\ ReportIdle /\ MainIdle /\ SaveIdle /\ ConfigIdle

SpecSelect == SelectInit /\ [][SelectNext]_vars

\* ------------------------------------------------------------------------
\* Properties
\* ------------------------------------------------------------------------
RECURSIVE SumOver(_, _)
\* the sum of f over the finite set S of its arguments
SumOver(f, S) ==
    IF S = {} THEN 0
    ELSE LET x == CHOOSE y \in S : TRUE IN f[x] + SumOver(f, S \ {x})

\* requests issued so far by all workers
IssuedRequests == SumOver(reqNum, Workers)

AllStopped == \A w \in Workers : workerPc[w] = "stopped"

\* a worker takes a tick from its ticker in this step
TakesTick(w) == tickerC[w] = 1 /\ tickerC'[w] = 0

\* a worker starts a request in this step
Issues(w) == reqNum'[w] # reqNum[w]

\* C1: a worker that receives a tick with less than 35s of the 90s session
\* left stops without issuing a request (and never issues one again); with at
\* least 35s left it issues exactly one request, at once.
C1_TickRule ==
    [][\A w \in Workers :
          /\ TakesTick(w) =>
                IF 90 - now < 35
                THEN workerPc'[w] = "stopped" /\ reqNum'[w] = reqNum[w]
                ELSE /\ workerPc'[w] = "requesting"
                     /\ reqNum'[w] = reqNum[w] + 1
                     /\ reqStart'[w] = now
          /\ workerPc[w] = "stopped" =>
                workerPc'[w] = "stopped" /\ reqNum'[w] = reqNum[w]]_vars

\* a worker that issued a request on a tick with exactly 35s left and was
\* later stopped by a tick
C1_Witness ==
    \E w \in Workers : workerPc[w] = "stopped" /\ reqStart[w] = 55 /\ reqNum[w] >= 2

C4_MixedAlternation ==
    mode = ModeMixed =>
        \A w \in Workers : reqNum[w] >= 1 =>
            testMode[w] = IF reqNum[w] % 2 = 1 THEN "streaming" ELSE "tool-calling"

\* a worker in an even-numbered, tool-calling request after failures only
C4_Witness ==
    /\ mode = ModeMixed
    /\ successCount = 0 /\ failureCount >= PoolSize
    /\ \A w \in Workers :
          workerPc[w] = "requesting" /\ reqNum[w] = 2 /\ testMode[w] = ModeToolCalling

SessionCompleted ==
    /\ AllStopped
    /\ chanClosed /\ Len(resultsChan) = 0
    /\ Len(diagnosticResults) = 1

\* the final state of an invocation whose log file could not be created
SessionNotStarted ==
    /\ \A w \in Workers : workerPc[w] = "unborn"
    /\ ~ chanClosed
    /\ Len(diagnosticResults) = 0

C6_SummaryCounts ==
    /\ [](\A i \in 1..Len(diagnosticResults) :
            LET summary == diagnosticResults[i] IN
               /\ summary.TotalRequests = summary.Successful + summary.Failed
               /\ summary.TotalRequests = IssuedRequests
               /\ SumOver(summary.Errors, DOMAIN summary.Errors) = summary.Failed
               /\ \A e \in DOMAIN summary.Errors : summary.Errors[e] >= 1)
    /\ [][failureCount' # failureCount =>
            LET e == Head(resultsChan).err IN
               /\ failureCount' = failureCount + 1
               /\ e # NoError
               /\ DOMAIN errors' = DOMAIN errors \cup {e}
               /\ errors'[e] = (IF e \in DOMAIN errors THEN errors[e] ELSE 0) + 1
               /\ \A k \in DOMAIN errors \ {e} : errors'[k] = errors[k]]_vars

\* a summary with two distinct error texts, one of them counted twice
C6_Witness ==
    /\ Len(diagnosticResults) = 1
    /\ Cardinality(DOMAIN diagnosticResults[1].Errors) = 2
    /\ diagnosticResults[1].Failed >= 3

\* C7: the averages of the summary are the sums over the successful requests
\* divided by the success count when there is a success; without a success
\* they are all zero and the Errors map carries every failure.
C7_Averages ==
    \A i \in 1..Len(diagnosticResults) :
        LET summary == diagnosticResults[i] IN
           IF summary.Successful > 0
           THEN /\ summary.AvgE2ELatency = totalE2E \div summary.Successful
                /\ summary.AvgTTFT = totalTTFT \div summary.Successful
                /\ summary.AvgTokens = totalTokens \div summary.Successful
                /\ summary.AvgThroughput.num = totalThroughput
                /\ summary.AvgThroughput.den = summary.Successful
           ELSE /\ summary.AvgE2ELatency = 0
                /\ summary.AvgTTFT = 0
                /\ summary.AvgTokens = 0
                /\ summary.AvgThroughput.num = 0
                /\ summary.Failed = IssuedRequests
                /\ SumOver(summary.Errors, DOMAIN summary.Errors) = summary.Failed

\* a summary of a session without a single success
C7_Witness ==
    /\ Len(diagnosticResults) = 1
    /\ diagnosticResults[1].Successful = 0
    /\ diagnosticResults[1].Failed >= 2

\* the runs of the batch that were launched
Launched == {r \in Runs : runPc[r] # "unlaunched"}

\* a worker's request returns in this step
Returns(w) == workerPc[w] = "requesting" /\ workerPc'[w] # "requesting"

\* C8: testProviderMetrics returns its result only after every configured
\* repetition was launched, has finished and had its outcome received, and a
\* failure received by the collector ends neither the loop nor any run; a
\* diagnostic worker whose request returned, failed or not, goes on to wait
\* at the select and is stopped only there.
C8_NoEarlyAbort ==
    /\ [](batchPc = "returned" /\ Len(results) = 1 =>
            /\ Launched = 1..(IF mode = ModeMixed THEN 6 ELSE 3)
            /\ \A r \in Launched : runPc[r] = "done"
            /\ Len(runsChan) = 0)
    /\ [][firstError' # firstError => batchPc' = "collect" /\ runPc' = runPc]_vars
    /\ [][\A w \in Workers :
            /\ Returns(w) => workerPc'[w] = "waiting"
            /\ (workerPc[w] # "stopped" /\ workerPc'[w] = "stopped") =>
                  workerPc[w] = "waiting"]_vars

\* every worker is in its second request although all requests so far failed
C8_Witness ==
    /\ program = "diagnostic"
    /\ successCount = 0 /\ failureCount >= PoolSize
    /\ \A w \in Workers : workerPc[w] = "requesting" /\ reqNum[w] = 2

\* the launch loops of the batch are over
LaunchOver == batchPc \in {"collect", "panic"} \/ (batchPc = "returned" /\ Len(results) = 1)

\* the mode of run r (the goroutine's currentMode)
CurrentMode(r) == RunMode(mode, r)

C10_NoBlockedSend ==
    /\ LaunchOver =>
          RunsChanCap(mode) = Cardinality(Launched)
    /\ Len(runsChan) <= RunsChanCap(mode)
    /\ \A r \in Runs : runPc[r] = "running" => Len(runsChan) < RunsChanCap(mode)

\* every run of a mixed batch has sent before the consumer received anything
C10_Witness == Len(runsChan) = 6

\* the outcomes the consumer of the batch has received so far
ReceivedRuns == Cardinality({r \in Runs : runPc[r] = "done"}) - Len(runsChan)

\* a run sends its outcome in this step
SendsRun == Len(runsChan') > Len(runsChan)

\* the consumer of the batch receives an outcome in this step
ReceivesRun == Len(runsChan') < Len(runsChan)

\* C11: the result channel of testProviderMetrics is closed only after every
\* repetition was launched and has sent its outcome, it stays closed, nothing
\* is sent on it once closed, and the consumer's loop ends only on the closed
\* and drained channel, after exactly totalRuns outcomes were received.
C11_CloseAfterRuns ==
    /\ [](runsClosed =>
            \A r \in Runs : IF r <= TotalRuns(mode) THEN runPc[r] = "done"
                            ELSE runPc[r] = "unlaunched")
    /\ [][runsClosed => runsClosed']_vars
    /\ [][SendsRun => ~ runsClosed /\ ~ runsClosed']_vars
    /\ [](batchPc = "returned" /\ Len(results) = 1 =>
            /\ runsClosed
            /\ Len(runsChan) = 0
            /\ ReceivedRuns = (IF mode = ModeMixed THEN 6 ELSE 3))

\* a mixed batch has returned after its channel was closed and drained
C11_Witness ==
    /\ mode = ModeMixed
    /\ batchPc = "returned"
    /\ runsClosed
    /\ ReceivedRuns = 6

\* C12: with at least one successful repetition the TestResult has
\* Success = true and every averaged field is the sum over the successful
\* repetitions divided by their number (so a batch of a single mode, whose
\* successes report the same metrics, averages to those metrics whatever the
\* number of failures).
C12_SuccessAverages ==
    \A i \in 1..Len(results) : successfulRuns >= 1 =>
        LET result == results[i] IN
           /\ result.Success = TRUE
           /\ result.Error = ""
           /\ result.E2ELatency = e2eSum \div successfulRuns
           /\ result.TTFT = ttftSum \div successfulRuns
           /\ result.CompletionTokens = tokensSum \div successfulRuns
           /\ result.Throughput.num = throughputSum
           /\ result.Throughput.den = successfulRuns
           /\ mode # ModeMixed =>
                 \A x \in RunMetrics(mode) :
                     /\ result.E2ELatency = x.e2e
                     /\ result.TTFT = x.ttft
                     /\ result.CompletionTokens = x.tokens
                     /\ result.Throughput.num = x.throughput * result.Throughput.den

\* a mixed batch of 6 runs of which 2 failed: the divisor is 4
C12_Witness ==
    /\ mode = ModeMixed
    /\ Len(results) = 1
    /\ successfulRuns = 4
    /\ results[1].Throughput.den = 4
    /\ firstError # NoError

\* C13: a batch whose repetitions all failed returns a TestResult with
\* Success = false, zero timings and the error text of the first failure the
\* consumer received; the error kept is set by the first failure received and
\* never replaced, and the function never reaches firstError.Error() with no
\* error kept.
C13_AllFailed ==
    /\ [](batchPc # "panic")
    /\ [](\A i \in 1..Len(results) : successfulRuns = 0 =>
            LET result == results[i] IN
               /\ result.Success = FALSE
               /\ result.E2ELatency = 0
               /\ result.TTFT = 0
               /\ result.CompletionTokens = 0
               /\ result.Throughput.num = 0
               /\ result.Error = firstError
               /\ result.Error \in {"stream error", "error creating stream",
                                    "timeout exceeded"})
    /\ [][firstError' # firstError =>
            /\ firstError = NoError
            /\ ReceivesRun
            /\ firstError' = Head(runsChan).err]_vars
    /\ [][(ReceivesRun /\ Head(runsChan).err # NoError /\ firstError = NoError) =>
            firstError' = Head(runsChan).err]_vars

\* a batch without a success whose first failure was a stream creation error
\* and whose last runs were cut off by the deadline
C13_Witness ==
    /\ batchPc = "returned"
    /\ Len(results) = 1
    /\ results[1].Success = FALSE
    /\ results[1].Error = ErrCreate
    /\ batchNow = 5

RECURSIVE FirstFailure(_)
\* the error text of the first failure in a sequence of outcomes
FirstFailure(seq) ==
    IF seq = <<>> THEN NoError
    ELSE IF Head(seq).err # NoError THEN Head(seq).err
    ELSE FirstFailure(Tail(seq))

\* C15 as stated: two executions receiving the same outcomes in different
\* orders build the same TestResult and the same DiagnosticSummary.
C15_Original == orderPc = "built" => built[1] = built[2]

\* C15 amended: the DiagnosticSummary and every field of the TestResult but
\* Error are the same for both orders; Error is empty when a repetition
\* succeeded and otherwise the text of the failure that arrived first in the
\* execution's own order.
C15_OrderIndependent ==
    orderPc = "built" =>
        /\ built[1].summary = built[2].summary
        /\ \A f \in {"Mode", "E2ELatency", "TTFT", "Throughput",
                     "CompletionTokens", "Success"} :
              built[1].test[f] = built[2].test[f]
        /\ \A x \in Execs :
              built[x].test.Error =
                 IF built[x].test.Success THEN "" ELSE FirstFailure(arrival[x])

\* two different arrival orders of a mixed batch with successes of both
\* sub-modes and a failure
C15_Witness ==
    /\ orderPc = "built"
    /\ arrival[1] # arrival[2]
    /\ mode = ModeMixed
    /\ built[1].summary.Failed >= 1
    /\ \E i, j \in 1..Len(arrival[1]) :
          /\ arrival[1][i].err = NoError /\ arrival[1][j].err = NoError
          /\ arrival[1][i] # arrival[1][j]

\* the receiving loop processes a stream event in this step (it is
\* `response` in the next state)
ReceivesEvent == chunkCount' = chunkCount + 1

\* an event carries non-empty content, non-empty reasoning text or, for the
\* tool-calling run, a tool-call fragment
CarriesFirstToken(m, ev) ==
    /\ ev.choices > 0
    /\ \/ Len(ev.content) > 0
       \/ Len(ev.reasoning) > 0
       \/ (m = "tool-calling" /\ Len(ev.toolCalls) > 0)

\* the run has returned after the end-of-stream marker
EndedNormally == streamPc = "returned" /\ endTime # 0

\* the run has returned a success
RunSucceeded == streamPc = "returned" /\ runOutcome.err = NoError

\* C16: the first-token timestamp is unset until the first event carrying
\* content, reasoning text or (tool-calling run) a tool-call fragment is
\* received, is set by that event to the time of its receipt, and is never
\* changed afterwards, by a later event or by anything else.
C16_FirstTokenOnce ==
    /\ [][~ IsZero(firstTokenTime) => firstTokenTime' = firstTokenTime]_vars
    /\ [][(ReceivesEvent /\ IsZero(firstTokenTime)) =>
            firstTokenTime' = IF CarriesFirstToken(mode, response') THEN clock ELSE 0]_vars
    /\ [][~ ReceivesEvent => firstTokenTime' = firstTokenTime]_vars
    /\ [](~ IsZero(firstTokenTime) => startTime <= firstTokenTime /\ chunkCount >= 1)

\* a later event that carries content was received after the timestamp was
\* set, and left it alone
C16_Witness ==
    /\ streamPc = "recv"
    /\ chunkCount >= 2
    /\ ~ IsZero(firstTokenTime)
    /\ firstTokenTime < clock
    /\ CarriesFirstToken(mode, response)
    /\ Len(fullResponseContent) >= 2

\* C17: a run that returns after the end-of-stream marker returns the
\* no-content error when no first-token timestamp was set, otherwise the
\* zero-tokens error when the accumulated text has no token, otherwise a
\* success with the token count of the text, which is at least 1; the two
\* error texts differ.
C17_EndOfStream ==
    /\ EndedNormally =>
          IF IsZero(firstTokenTime)
          THEN runOutcome.err = "no content received from API"
          ELSE IF TokenCount(fullResponseContent) = 0
               THEN runOutcome.err = "received 0 tokens"
               ELSE /\ runOutcome.err = NoError
                    /\ runOutcome.tokens = TokenCount(fullResponseContent)
                    /\ runOutcome.tokens >= 1
    /\ ErrNoContent # ErrZeroTokens

\* a stream that set the first-token timestamp but accumulated no text ended
\* with the zero-tokens error
C17_Witness ==
    /\ EndedNormally
    /\ ~ IsZero(firstTokenTime)
    /\ runOutcome.err = ErrZeroTokens

\* C18: in the tool-calling run an event with a tool-call fragment leaves the
\* first-token timestamp set and appends its content, reasoning text, function
\* name and arguments to the text; a run that ends with the no-content error
\* has received no such event (its timestamp is unset and its text empty).
C18_ToolCallsCount ==
    /\ [][(mode = ModeToolCalling /\ ReceivesEvent /\ response'.choices > 0
           /\ Len(response'.toolCalls) > 0) =>
            /\ ~ IsZero(firstTokenTime')
            /\ fullResponseContent' =
                 fullResponseContent \o response'.content \o response'.reasoning
                 \o response'.toolCalls[1].name \o response'.toolCalls[1].arguments]_vars
    /\ [](streamPc = "returned" /\ runOutcome.err = ErrNoContent =>
            IsZero(firstTokenTime) /\ fullResponseContent = EmptyString)

\* a tool-calling run whose events carried tool-call fragments only (a name,
\* then arguments) has succeeded
C18_Witness ==
    /\ mode = ModeToolCalling
    /\ RunSucceeded
    /\ runOutcome.response = <<"n", "a">>
    /\ chunkCount = 2

\* C19: the clock never goes back, the timestamps of a run are taken in the
\* order start, first token, end, and a successful outcome has
\* 0 <= ttft <= e2e, ttft and e2e being measured from the start.
C19_TimingOrder ==
    /\ [][clock' >= clock]_vars
    /\ [](RunSucceeded =>
            /\ startTime <= firstTokenTime /\ firstTokenTime <= endTime
            /\ runOutcome.ttft = firstTokenTime - startTime
            /\ runOutcome.e2e = endTime - startTime
            /\ 0 <= runOutcome.ttft
            /\ runOutcome.ttft <= runOutcome.e2e)

\* a success whose first token came after the start and before the end
C19_Witness ==
    /\ RunSucceeded
    /\ 0 < runOutcome.ttft
    /\ runOutcome.ttft < runOutcome.e2e

\* C20: the throughput of a successful outcome is (tokens - 1) over the
\* generation interval e2e - ttft when that interval is positive and 0
\* otherwise; it is never negative, never a quotient by a non-positive
\* interval, and 0 when the token count is 1.
C20_Throughput ==
    RunSucceeded =>
        LET interval == runOutcome.e2e - runOutcome.ttft IN
           /\ IF interval <= 0
              THEN runOutcome.throughput = [num |-> 0, den |-> 1]
              ELSE /\ runOutcome.throughput.num = runOutcome.tokens - 1
                   /\ runOutcome.throughput.den = interval
           /\ runOutcome.throughput.num >= 0
           /\ runOutcome.throughput.den > 0
           /\ runOutcome.tokens = 1 => runOutcome.throughput.num = 0

\* a success of one token with a positive generation interval
C20_Witness ==
    /\ RunSucceeded
    /\ runOutcome.tokens = 1
    /\ runOutcome.e2e > runOutcome.ttft

\* the run has returned an error
RunFailed == streamPc = "returned" /\ runOutcome.err # NoError

\* C21: a run that returns an error returns zero e2e, ttft, throughput and
\* tokens and an empty response text, whichever of the five errors it is, and
\* both coordinators' sums and success counts are the same after receiving
\* such an outcome as before.
C21_FailedRunIsEmpty ==
    RunFailed =>
        /\ runOutcome.err \in {"error creating stream", "stream error",
                               "timeout exceeded", "no content received from API",
                               "received 0 tokens"}
        /\ runOutcome.e2e = 0
        /\ runOutcome.ttft = 0
        /\ runOutcome.throughput = [num |-> 0, den |-> 1]
        /\ runOutcome.tokens = 0
        /\ runOutcome.response = <<>>
        /\ LET a == [BatchAccInit EXCEPT !.e2eSum = 7, !.ttftSum = 3,
                                         !.throughputSum = 3, !.tokensSum = 14,
                                         !.successfulRuns = 2]
               b == ReceiveRun(a, runOutcome)
           IN  \A f \in {"e2eSum", "ttftSum", "throughputSum", "tokensSum",
                         "successfulRuns"} : b[f] = a[f]
        /\ LET a == [DiagAccInit EXCEPT !.totalE2E = 7, !.totalTTFT = 3,
                                        !.totalThroughput = 3, !.totalTokens = 14,
                                        !.successCount = 2]
               b == ReceiveDiag(a, runOutcome)
           IN  \A f \in {"totalE2E", "totalTTFT", "totalThroughput", "totalTokens",
                         "successCount"} : b[f] = a[f]

\* a run that had set its first-token timestamp and accumulated text was cut
\* off by the deadline
C21_Witness ==
    /\ RunFailed
    /\ runOutcome.err = ErrTimeout
    /\ ~ IsZero(firstTokenTime)
    /\ Len(fullResponseContent) > 0
    /\ clock > startTime

\* C22 as stated: a run whose call into the transport (creating the stream or
\* receiving from it) fails once its context has expired returns the timeout
\* error; the timeout error is returned only when the context has expired and
\* differs from the stream-creation and stream-receive errors.
C22_Original ==
    /\ (RunFailed /\ IsZero(endTime) /\ CtxExpired(clock)) =>
          runOutcome.err = "timeout exceeded"
    /\ (RunFailed /\ runOutcome.err = "timeout exceeded") => CtxExpired(clock)
    /\ ErrTimeout \notin {ErrCreate, ErrStream}

\* C23: every run returns, even when the provider stays silent: once the
\* context has expired the run does not stay in the call that creates the
\* stream or in the receiving loop.
C23_RunReturns ==
    /\ <>(streamPc = "returned")
    /\ [](streamPc = "returned" => runOutcome # <<>>)
    /\ [][(streamPc = "recv" /\ streamPc' = "returned" /\ IsZero(endTime'))
            => runOutcome'.err # NoError]_vars

\* a run whose provider sent nothing returned the timeout error at the
\* deadline
C23_Witness ==
    /\ streamPc = "returned"
    /\ chunkCount = 0
    /\ runOutcome.err = ErrTimeout
    /\ clock = RunDeadline

\* the report has been built
ReportBuilt == reportPc \in {"written", "failed"}

\* the successful records of the input of the report, in the order of the input
SuccessfulInput ==
    SelectSeq(reportInput,
              LAMBDA r : IF "Success" \in DOMAIN r THEN r.Success
                         ELSE r.Successful > 0)

\* every record occurs as many times in a as in b
IsPermutation(a, b) ==
    /\ Len(a) = Len(b)
    /\ \A x \in {a[i] : i \in 1..Len(a)} \cup {b[i] : i \in 1..Len(b)} :
           Cardinality({i \in 1..Len(a) : a[i] = x})
               = Cardinality({i \in 1..Len(b) : b[i] = x})

\* the rows are in the order the view declares: throughput from the highest
\* down, the two latencies from the lowest up
InDeclaredOrder(rows, view) ==
    \A i, j \in 1..Len(rows) :
        i < j =>
            IF view \in {"Throughput", "AvgThroughput"}
            THEN rows[i][view] >= rows[j][view]
            ELSE rows[i][view] <= rows[j][view]

\* C24: each leaderboard of generateMarkdownReport and of
\* generateDiagnosticReport is a permutation of the successful records of the
\* input and is in the order of its key: throughput non-increasing, time to
\* first token non-decreasing, end-to-end latency non-decreasing
C24_LeaderboardsSorted ==
    ReportBuilt =>
        \A k \in 1..Len(report.leaderboards) :
            /\ IsPermutation(report.leaderboards[k].rows, SuccessfulInput)
            /\ InDeclaredOrder(report.leaderboards[k].rows,
                               report.leaderboards[k].view)

\* a markdown report of three successful records that come in none of the
\* three orders, with its three leaderboards
C24_Witness ==
    /\ reportPc = "written"
    /\ report.kind = "markdown"
    /\ Len(SuccessfulInput) = 3
    /\ Len(report.leaderboards) = 3
    /\ \A k \in 1..3 :
           /\ ~ InDeclaredOrder(reportInput, report.leaderboards[k].view)
           /\ report.leaderboards[k].rows # reportInput

\* C25 as stated: in every leaderboard the records of equal key are in the
\* order they have in the input (the provider of a record is its place in the
\* input)
C25_Original ==
    ReportBuilt =>
        \A k \in 1..Len(report.leaderboards) :
            LET rows == report.leaderboards[k].rows
                view == report.leaderboards[k].view
            IN  \A i, j \in 1..Len(rows) :
                    (i < j /\ rows[i][view] = rows[j][view])
                        => rows[i].Provider < rows[j].Provider

\* C26 as stated: a report generated from records with a successful one among
\* them has the three leaderboards, by throughput, by time to first token and
\* by end-to-end latency, whether generated from TestResults or from
\* DiagnosticSummaries
C26_Original ==
    (ReportBuilt /\ Len(SuccessfulInput) > 0) =>
        /\ Len(report.leaderboards) = 3
        /\ report.leaderboards[1].view \in {"Throughput", "AvgThroughput"}
        /\ report.leaderboards[2].view \in {"TTFT", "AvgTTFT"}
        /\ report.leaderboards[3].view \in {"E2ELatency", "AvgE2ELatency"}

\* C26 amended: from TestResults with a successful one among them
\* generateMarkdownReport makes the three leaderboards, by throughput, by
\* time to first token and by end-to-end latency; from DiagnosticSummaries
\* with a successful one among them generateDiagnosticReport makes two, by
\* throughput and by time to first token; without a successful record
\* neither makes a leaderboard
C26_RankedViews ==
    ReportBuilt =>
        IF Len(SuccessfulInput) = 0
        THEN report.leaderboards = <<>>
        ELSE IF report.kind = "markdown"
        THEN /\ Len(report.leaderboards) = 3
             /\ report.leaderboards[1].view = "Throughput"
             /\ report.leaderboards[2].view = "TTFT"
             /\ report.leaderboards[3].view = "E2ELatency"
        ELSE /\ Len(report.leaderboards) = 2
             /\ report.leaderboards[1].view = "AvgThroughput"
             /\ report.leaderboards[2].view = "AvgTTFT"

\* a diagnostic report of two successful summaries and one without a
\* successful request, with its two leaderboards
C26_Witness ==
    /\ reportPc = "written"
    /\ report.kind = "diagnostic"
    /\ Len(reportInput) = 3
    /\ Len(SuccessfulInput) = 2
    /\ Len(report.leaderboards) = 2

\* C27: a TestResult with Success = false, or a DiagnosticSummary without a
\* successful request, is in no leaderboard, and every failed TestResult is
\* once in the table of the failed tests of the markdown report, which holds
\* nothing else and is in the order of the input
C27_FailedUnranked ==
    ReportBuilt =>
        /\ \A k \in 1..Len(report.leaderboards) :
               \A i \in 1..Len(report.leaderboards[k].rows) :
                   LET r == report.leaderboards[k].rows[i]
                   IN  IF report.kind = "markdown"
                       THEN r.Success
                       ELSE r.Successful > 0
        /\ report.kind = "markdown" =>
               /\ \A n \in 1..Len(reportInput) :
                      ~ reportInput[n].Success =>
                          Cardinality({i \in 1..Len(report.failedTests) :
                              report.failedTests[i] = reportInput[n]}) = 1
               /\ \A i \in 1..Len(report.failedTests) :
                      ~ report.failedTests[i].Success
               /\ Len(report.failedTests) = report.failed
               /\ report.successful + report.failed = Len(reportInput)

\* a markdown report of one failed TestResult between two successful ones
C27_Witness ==
    /\ reportPc = "written"
    /\ report.kind = "markdown"
    /\ Len(reportInput) = 3
    /\ ~ reportInput[2].Success
    /\ Len(report.failedTests) = 1
    /\ Len(report.leaderboards) = 3
    /\ Len(report.leaderboards[1].rows) = 2

\* a diagnostic report with a leaderboard, one of its summaries being without
\* a successful request
C27_WitnessDiagnostic ==
    /\ reportPc = "written"
    /\ report.kind = "diagnostic"
    /\ \E n \in 1..Len(reportInput) : reportInput[n].Successful = 0
    /\ Len(report.leaderboards) = 2

\* main has gone on to the generation of the report
ReportStarted == mainPc \in {"report", "exit"}

\* the providers whose record is in the slice
Recorded(rs) == {rs[i] : i \in 1..Len(rs)}

\* C28: main goes on to the generation of the report only when every
\* provider's run has returned, with --all and without, in normal and in
\* diagnostic mode; from then on no record is appended to the results, and
\* the report is generated from the records of all the runs that made one
C28_ReportAfterJoin ==
    /\ [](ReportStarted =>
             \A p \in Providers :
                 provPc[p] = IF p <= providersToTest THEN "done" ELSE "pending")
    /\ [](mainPc = "exit" =>
             (reported = mainResults /\ Recorded(reported) = produced))
    /\ [][ReportStarted => mainResults' = mainResults]_vars

\* two providers run as goroutines, the second has appended its record before
\* the first, and the report was generated from both records
C28_Witness ==
    /\ mainPc = "exit"
    /\ Concurrent
    /\ providersToTest = 2
    /\ reported = <<2, 1>>

\* two providers called one after the other in normal mode, the report
\* generated from both records
C28_WitnessSequential ==
    /\ mainPc = "exit"
    /\ ~ Concurrent
    /\ ~ diagnostic
    /\ providersToTest = 2
    /\ reported = <<1, 2>>

\* C29: a record is appended to the shared results only by a provider that
\* holds the results mutex, at most one provider is between Lock and Unlock,
\* an append adds one record and keeps those that were there, and once main
\* has waited for the providers the slice holds one record for each run that
\* made a record and nothing else
C29_AppendsUnderMutex ==
    /\ [][mainResults' # mainResults =>
             \E p \in Providers :
                 /\ resultsMutex = p
                 /\ provPc[p] = "write"
                 /\ mainResults' = Append(mainResults, p)]_vars
    /\ [](Cardinality({p \in Providers :
                          provPc[p] \in {"read", "write", "unlock"}}) <= 1)
    /\ [](ReportStarted =>
             /\ Recorded(mainResults) = produced
             /\ Len(mainResults) = Cardinality(produced))

\* two providers run as goroutines, both are at their append while one holds
\* the mutex and the other waits for it
C29_Witness ==
    /\ Concurrent
    /\ provPc[1] = "lock"
    /\ provPc[2] = "write"
    /\ resultsMutex = 2

\* two providers run as goroutines and both records are in the slice when
\* main has waited for them
C29_WitnessJoined ==
    /\ Concurrent
    /\ mainPc = "report"
    /\ produced = {1, 2}
    /\ Len(mainResults) = 2

\* a worker is at a request or at its select
WorkerActive(w) == workerPc[w] \in {"requesting", "waiting"}

SavedRuns == {n \in 1..saveNum : saveOutcomes[n].err = NoError}

\* C32 as stated: the batch with response saving builds the TestResult of the
\* batch without, and where saving is on the response text of each run that
\* has returned one is in the file named after the run
C32_Original ==
    /\ savePc = "built" => saveBuilt[1] = saveBuilt[2]
    /\ \A x \in Execs :
           saveResponses[x] =>
               \A n \in SavedRuns :
                   /\ ResponseFile(n, RunMode(mode, n)) \in DOMAIN responseFiles[x]
                   /\ responseFiles[x][ResponseFile(n, RunMode(mode, n))]
                          = saveOutcomes[n].response

\* C32 amended: the batch with response saving has the accumulators, and
\* builds the TestResult, of the batch without, whether its files could be
\* written or not; where saving is on a response file exists only for a run
\* that succeeded, is named after that run alone and holds its response text
\* (a run whose file could not be written has none); where saving is off no
\* file is written
C32_SavingIsSideEffect ==
    /\ saveAcc[1] = saveAcc[2]
    /\ savePc = "built" => saveBuilt[1] = saveBuilt[2]
    /\ \A x \in Execs :
           /\ ~ saveResponses[x] => responseFiles[x] = NoFiles
           /\ \A name \in DOMAIN responseFiles[x] :
                  \E n \in SavedRuns :
                      /\ name = ResponseFile(n, RunMode(mode, n))
                      /\ responseFiles[x][name] = saveOutcomes[n].response
                      /\ \A k \in 1..TotalRuns(mode) :
                             k # n => ResponseFile(k, RunMode(mode, k)) # name

\* a mixed batch with response saving whose six runs succeeded, the file of
\* one could not be written, and the TestResult is a success
C32_Witness ==
    /\ savePc = "built"
    /\ mode = ModeMixed
    /\ saveResponses[1]
    /\ Cardinality(SavedRuns) = 6
    /\ Cardinality(DOMAIN responseFiles[1]) = 5
    /\ saveBuilt[1].Success

\* the number of outcomes the collecting loop of diagnosticMode has received
Received == successCount + failureCount

\* C33 as stated: the collecting loop of diagnosticMode receives an outcome
\* only when every worker has stopped
C33_Original ==
    [][Received' # Received => \A w \in Workers : workerPc[w] = "stopped"]_vars

\* C33 amended: the collecting loop receives the outcomes one by one from the
\* head of the channel, while workers are still at work as well; it ends,
\* and the summary is built, only when every worker has stopped and the
\* channel is closed and empty, every outcome sent having been received
C33_CollectorDrains ==
    /\ [][Received' # Received =>
             /\ Received' = Received + 1
             /\ Len(resultsChan) > 0
             /\ resultsChan' = Tail(resultsChan)]_vars
    /\ [](chanClosed => \A w \in Workers : workerPc[w] = "stopped")
    /\ []((diagPc = "returned" /\ Len(diagnosticResults) = 1) =>
             /\ \A w \in Workers : workerPc[w] = "stopped"
             /\ chanClosed
             /\ Len(resultsChan) = 0
             /\ Received = IssuedRequests)

\* the collecting loop has received an outcome and a worker is at a request
C33_Witness ==
    /\ diagPc = "collect"
    /\ Received >= 1
    /\ \E w \in Workers : workerPc[w] = "requesting"

\* the provider entry takes none of the three ways of being wrong
ProviderEntryGood(p) ==
    p.Provider # "" /\ p.Model # "" /\ p.Provider \in cfgKeys

\* the group has none of the faults of a group, its providers left aside
GroupItselfGood(g) ==
    /\ g.Name # ""
    /\ g.Mode \in {"streaming", "tool-calling", "mixed", "diagnostic"}
    /\ Len(g.Providers) > 0
    /\ g.DiagnosticParams # "nil" => g.Mode = "diagnostic"

\* the group has no fault at all
GroupGood(g) ==
    /\ GroupItselfGood(g)
    /\ \A j \in 1..Len(g.Providers) : ProviderEntryGood(g.Providers[j])

\* the file could be read
ConfigValidated ==
    cfgPc = "returned" /\ cfgErr.kind # "error reading config file"

\* C34: ValidateConfig returns nil, and LoadConfig the config, exactly for a
\* configuration with a group at least, every group with a name, a mode among
\* streaming, tool-calling, mixed and diagnostic, a provider at least, every
\* provider with a name, a model and an entry in api_keys, and
\* diagnostic_params in diagnostic groups only; otherwise LoadConfig returns
\* no config and the error is about the first group at fault, and where that
\* group itself is sound about its first provider at fault
C34_ValidateConfig ==
    ConfigValidated =>
        /\ cfgLoaded <=> cfgErr = NilError
        /\ cfgErr = NilError <=>
               /\ cfgNum > 0
               /\ Len(cfgGroups) = cfgNum
               /\ \A i \in 1..Len(cfgGroups) : GroupGood(cfgGroups[i])
        /\ cfgNum = 0 => cfgErr.kind = "no test groups defined"
        /\ (cfgErr # NilError /\ cfgNum > 0) =>
               LET last == Len(cfgGroups)
                   g == cfgGroups[last]
               IN  /\ last >= 1
                   /\ \A i \in 1..(last - 1) : GroupGood(cfgGroups[i])
                   /\ ~ GroupGood(g)
                   /\ cfgErr.group = last - 1
                   /\ cfgErr.provider = -1 <=> ~ GroupItselfGood(g)
                   /\ cfgErr.provider # -1 =>
                          /\ cfgErr.provider + 1 \in 1..Len(g.Providers)
                          /\ ~ ProviderEntryGood(g.Providers[cfgErr.provider + 1])
                          /\ \A j \in 1..cfgErr.provider :
                                 ProviderEntryGood(g.Providers[j])

\* a file whose first group is a sound diagnostic group without
\* diagnostic_params and whose second group has a sound provider followed by
\* one without an entry in api_keys: the error names group 1, provider 1
C34_Witness ==
    /\ cfgPc = "returned"
    /\ ~ cfgLoaded
    /\ Len(cfgGroups) = 2
    /\ cfgGroups[1].Mode = "diagnostic"
    /\ cfgGroups[1].DiagnosticParams = "nil"
    /\ cfgErr = ConfigError("no API key defined in [api_keys]", 1, 1)

\* a file of two sound groups: LoadConfig returns the config
C34_WitnessValid ==
    /\ cfgPc = "returned"
    /\ cfgLoaded
    /\ Len(cfgGroups) = 2

\* C35: a request of a diagnostic worker starts with 35 seconds of the
\* session left at least, that is at second 55 at the latest; the deadline of
\* its own context, 30 seconds after its start, is before the end of the
\* session at second 90, and the request has returned by its own deadline,
\* so before the session's
C35_NoRequestCutOff ==
    /\ [][\A w \in Workers :
             reqNum'[w] # reqNum[w] =>
                 /\ sessionDuration - now >= requestTimeout + gracePeriod
                 /\ reqStart'[w] = now
                 /\ now <= 55]_vars
    /\ [](\A w \in Workers :
             reqNum[w] > 0 =>
                 /\ ReqDeadline(reqStart[w]) = reqStart[w] + requestTimeout
                 /\ ReqDeadline(reqStart[w]) < sessionDuration)
    /\ [][\A w \in Workers :
             (workerPc[w] = "requesting" /\ workerPc'[w] # "requesting") =>
                 /\ now <= ReqDeadline(reqStart[w])
                 /\ now < sessionDuration]_vars

\* a request started at second 55 has run into its own deadline at second 85
C35_Witness ==
    /\ now = 85
    /\ \E w \in Workers : reqStart[w] = 55 /\ workerPc[w] = "waiting"
    /\ Len(resultsChan) > 0
    /\ resultsChan[Len(resultsChan)].err = ErrTimeout

\* C36: whatever the requests last, a worker that has begun has issued one
\* request at least and four at most, so that a session of PoolSize workers
\* makes between PoolSize and 4 * PoolSize requests (10 to 40 with the 10
\* workers of the program); the channel never holds more outcomes than were
\* issued, far less than its capacity of 1000
C36_RequestCount ==
    /\ \A w \in Workers :
           /\ reqNum[w] <= 4
           /\ workerPc[w] \notin {"unborn", "idle"} => reqNum[w] >= 1
    /\ Len(resultsChan) + Received <= IssuedRequests
    /\ IssuedRequests <= 4 * PoolSize
    /\ 4 * 10 < 1000
    /\ \A i \in 1..Len(diagnosticResults) :
           /\ diagnosticResults[i].TotalRequests >= PoolSize
           /\ diagnosticResults[i].TotalRequests <= 4 * PoolSize

\* a session whose every worker made four requests, one of them longer than
\* the period of the ticker
C36_Witness ==
    /\ Len(diagnosticResults) = 1
    /\ diagnosticResults[1].TotalRequests = 4 * PoolSize
    /\ \A w \in Workers : reqNum[w] = 4 /\ slowRequest[w]

\* a session whose every worker made two requests only, both of 30 seconds
C36_WitnessFew ==
    /\ Len(diagnosticResults) = 1
    /\ diagnosticResults[1].TotalRequests = 2 * PoolSize

\* C37: the time to first token of a successful run is no more than its
\* end-to-end latency, and the averages keep that order: a TestResult with
\* Success has TTFT <= E2ELatency and a DiagnosticSummary with a successful
\* request has AvgTTFT <= AvgE2ELatency, failed runs among the successful
\* ones or not
C37_AveragesKeepOrder ==
    /\ \A i \in 1..Len(runsChan) :
           runsChan[i].err = NoError => runsChan[i].ttft <= runsChan[i].e2e
    /\ \A i \in 1..Len(resultsChan) :
           resultsChan[i].err = NoError => resultsChan[i].ttft <= resultsChan[i].e2e
    /\ ttftSum <= e2eSum
    /\ totalTTFT <= totalE2E
    /\ \A i \in 1..Len(results) :
           results[i].Success => results[i].TTFT <= results[i].E2ELatency
    /\ \A i \in 1..Len(diagnosticResults) :
           diagnosticResults[i].Successful > 0 =>
               diagnosticResults[i].AvgTTFT <= diagnosticResults[i].AvgE2ELatency

\* a successful TestResult of a batch with one successful run and two failed
\* ones
C37_Witness ==
    /\ Len(results) = 1
    /\ results[1].Success
    /\ successfulRuns = 1
    /\ TotalRuns(mode) = 3
    /\ results[1].TTFT >= 1

\* a DiagnosticSummary with successful and failed requests
C37_WitnessDiagnostic ==
    /\ Len(diagnosticResults) = 1
    /\ diagnosticResults[1].Successful >= 1
    /\ diagnosticResults[1].Failed >= 1
    /\ diagnosticResults[1].AvgTTFT >= 1

\* the loop has just processed one more event
EventReceived == streamPc = "recv" /\ chunkCount' = chunkCount + 1

\* the stream has ended with io.EOF
StreamEnded == streamPc = "returned" /\ endTime # 0

\* an event with a choice whose delta has neither content nor reasoning
\* content, only tool-call fragments
ToolCallOnly(ev) ==
    /\ ev.choices = 1
    /\ ev.content = EmptyString
    /\ ev.reasoning = EmptyString
    /\ Len(ev.toolCalls) > 0

\* C38: singleTestRun ignores tool-call fragments: an event that carries only
\* a tool-call fragment leaves firstTokenTime and the accumulated text as
\* they were, so a stream that ends with no other event returns the
\* no-content error; and in both functions an event with no choice is counted
\* as a chunk and leaves firstTokenTime and the accumulated text as they were
C38_IgnoredEvents ==
    /\ [][(EventReceived /\ mode = ModeStreaming /\ ToolCallOnly(response')) =>
              /\ firstTokenTime' = firstTokenTime
              /\ fullResponseContent' = fullResponseContent]_vars
    /\ [][(EventReceived /\ response'.choices = 0) =>
              /\ firstTokenTime' = firstTokenTime
              /\ fullResponseContent' = fullResponseContent]_vars
    /\ []((StreamEnded /\ mode = ModeStreaming /\ IsZero(firstTokenTime)) =>
              /\ fullResponseContent = EmptyString
              /\ runOutcome = Failed(ErrNoContent))

\* singleTestRun has returned the no-content error for a stream of two
\* events, the last of which named a function in a tool-call fragment
C38_Witness ==
    /\ mode = ModeStreaming
    /\ StreamEnded
    /\ chunkCount = 2
    /\ ToolCallOnly(response)
    /\ response.toolCalls[1].name # EmptyString
    /\ runOutcome.err = ErrNoContent

\* singleToolCallRun has returned the no-content error for a stream of
\* events without choices
C38_WitnessNoChoices ==
    /\ mode = ModeToolCalling
    /\ StreamEnded
    /\ chunkCount = 2
    /\ response = NoChoices
    /\ runOutcome.err = ErrNoContent

\* an event whose tool-call fragments all have an empty name and empty
\* arguments, and nothing else
EmptyToolCallOnly(ev) ==
    /\ ToolCallOnly(ev)
    /\ \A i \in 1..Len(ev.toolCalls) :
           /\ ev.toolCalls[i].name = EmptyString
           /\ ev.toolCalls[i].arguments = EmptyString

\* C39: in singleToolCallRun an event whose tool-call fragments are all empty
\* sets firstTokenTime (when it is not set yet) and appends no text, and a
\* stream that ends with firstTokenTime set and no text returns the
\* zero-token error, neither the no-content error nor a success
C39_EmptyToolCall ==
    /\ [][(EventReceived /\ mode = ModeToolCalling /\ EmptyToolCallOnly(response')) =>
              /\ firstTokenTime' = (IF IsZero(firstTokenTime) THEN clock ELSE firstTokenTime)
              /\ ~IsZero(firstTokenTime')
              /\ fullResponseContent' = fullResponseContent]_vars
    /\ []((/\ StreamEnded
           /\ mode = ModeToolCalling
           /\ ~IsZero(firstTokenTime)
           /\ fullResponseContent = EmptyString) =>
              runOutcome = Failed(ErrZeroTokens))

\* singleToolCallRun has returned the zero-token error for a stream of two
\* events that set firstTokenTime and wrote nothing, the last one an empty
\* tool-call fragment
C39_Witness ==
    /\ mode = ModeToolCalling
    /\ StreamEnded
    /\ chunkCount = 2
    /\ EmptyToolCallOnly(response)
    /\ ~IsZero(firstTokenTime)
    /\ fullResponseContent = EmptyString
    /\ runOutcome.err = ErrZeroTokens

\* C40 (as stated): with --all the providers selected never include generic,
\* and are exactly the other providers that have an API key and a model
C40_Original ==
    (selPc \in {"selected", "fatal"} /\ selFlags.all) =>
        /\ "generic" \notin selected
        /\ selected = {name \in ProviderNames \ {"generic"} :
                           Configured(allProviderConfigs[name])}
====
